---- MODULE Spec2Model ----
(***************************************************************************)
(* A model of backend/server.py of find-me-ai: the persona-response parser *)
(* (parse_persona_response), the greedy word-wrap loop of the image        *)
(* compositor (generate_share_card, generate_story_pack), the loop that    *)
(* lays out the traits on slide 2 of the story pack, and the request       *)
(* handlers of the API with the state they share: the theme table, and the *)
(* personas, persona_variations, config and purchases collections.         *)
(*                                                                         *)
(* Text is modelled as a sequence of tokens.  A token is one character     *)
(* (" ", "\n", "-", "a", "b") or one of the header keywords of the parser  *)
(* taken as a unit ("PERSONA ADI:", "BIO:", ...): no keyword is a prefix   *)
(* of another and every keyword ends with its only ':', so                 *)
(* line.startswith(k) is "the first token is k" and line.split(':', 1)[1]  *)
(* is "the tokens after the first".  The Turkish letters of the source are *)
(* written in ASCII: "BiO:" is the keyword with the dotted capital I,      *)
(* "OZELLiKLER:" and "PAYLASIM SOZU:" likewise.                            *)
(***************************************************************************)
EXTENDS Integers, Sequences, FiniteSets, TLC

VARIABLES
    response,       \* parse_persona_response: the argument response
    language,       \* parse_persona_response: the argument language
    persona_data,   \* parse_persona_response: the record returned
    parse_pc,       \* "start" before the call, "done" after it
    words,          \* word wrap: the widths of the words of the text, in order
    space_width,    \* word wrap: the width the font gives to a space
    site,           \* word wrap: the call site of the loop
    lines,          \* word wrap: the lines the loop produced
    drawn,          \* word wrap: the lines drawn on the canvas, lines[:k]
    wrap_pc,        \* "start" before the loop, "done" after it
    REPLICATE_API_TOKEN,  \* the token read from the environment at start-up
    PERSONA_THEMES, \* the global theme table
    personas,       \* db.personas, in insertion order
    persona_variations,   \* db.persona_variations, in insertion order
    config,         \* db.config
    purchases,      \* db.purchases, in insertion order
    gen,            \* the generate-persona requests: position and locals
    remix,          \* the remix-persona request: position and locals
    reply,          \* the response of the last handler that returned
    traits,         \* slide 2: persona['traits'], each the widths of its words
    trait_i,        \* slide 2: the number enumerate() gives the next trait
    y_pos,          \* slide 2: the vertical cursor
    draw2,          \* slide 2: what was drawn below the title, in order
    slide2_pc       \* "traits" inside the loop over the traits, "done" after

vars == <<response, language, persona_data, parse_pc,
          words, space_width, site, lines, drawn, wrap_pc,
          REPLICATE_API_TOKEN, PERSONA_THEMES, personas, persona_variations,
          config, purchases, gen, remix, reply,
          traits, trait_i, y_pos, draw2, slide2_pc>>

parse_vars == <<response, language, persona_data, parse_pc>>
wrap_vars == <<words, space_width, site, lines, drawn, wrap_pc>>
server_vars == <<REPLICATE_API_TOKEN, PERSONA_THEMES, personas,
                 persona_variations, config, purchases, gen, remix, reply>>
slide2_vars == <<traits, trait_i, y_pos, draw2, slide2_pc>>

(***************************************************************************)
(* Bounds of the model.                                                    *)
(***************************************************************************)
MaxLines == 3
MaxWords == 5
MaxRequests == 1      \* generate-persona requests of a run
MaxVariations == 1    \* a remix starts while fewer variations are stored
MaxPurchases == 1     \* purchases validated in a run

(***************************************************************************)
(* String helpers: str.strip, str.lstrip, str.split, str.startswith.       *)
(***************************************************************************)
Whitespace == {" ", "\n"}

RECURSIVE LStripSet(_, _)
LStripSet(s, chars) ==
    IF s # <<>> /\ Head(s) \in chars THEN LStripSet(Tail(s), chars) ELSE s

RECURSIVE RStripSet(_, _)
RStripSet(s, chars) ==
    IF s # <<>> /\ s[Len(s)] \in chars
    THEN RStripSet(SubSeq(s, 1, Len(s) - 1), chars)
    ELSE s

strip(s) == RStripSet(LStripSet(s, Whitespace), Whitespace)

lstrip(s, chars) == LStripSet(s, chars)

RECURSIVE split(_, _)
split(s, sep) ==
    IF \A i \in 1..Len(s) : s[i] # sep
    THEN <<s>>
    ELSE LET i == CHOOSE i \in 1..Len(s) :
                      s[i] = sep /\ \A j \in 1..(i - 1) : s[j] # sep
         IN  <<SubSeq(s, 1, i - 1)>> \o split(SubSeq(s, i + 1, Len(s)), sep)

startswith(line, k) == Len(line) >= 1 /\ line[1] = k

\* any(line.startswith(k) for k in klist)
any_startswith(line, klist) == \E i \in 1..Len(klist) : startswith(line, klist[i])

\* line.split(':', 1)[1].strip() on a line that starts with a keyword
after_colon(line) == strip(Tail(line))

(***************************************************************************)
(* parse_persona_response                                                  *)
(***************************************************************************)
keywords ==
    [tr |-> [name   |-> <<"PERSONA ADI:", "PERSONA NAME:">>,
             bio    |-> <<"BiO:", "BIO:">>,
             traits |-> <<"OZELLiKLER:", "TRAITS:", "FEATURES:">>,
             quote  |-> <<"PAYLASIM SOZU:", "SHARE QUOTE:", "QUOTE:">>],
     en |-> [name   |-> <<"PERSONA NAME:", "PERSONA ADI:">>,
             bio    |-> <<"BIO:", "BiO:">>,
             traits |-> <<"TRAITS:", "FEATURES:", "OZELLiKLER:">>,
             quote  |-> <<"SHARE QUOTE:", "QUOTE:", "PAYLASIM SOZU:">>]]

\* kw_of as it would be if each language knew its own labels only.
kw_of_own_labels(lang) ==
    IF lang = "tr"
    THEN [name |-> <<"PERSONA ADI:">>, bio |-> <<"BiO:">>,
          traits |-> <<"OZELLiKLER:">>, quote |-> <<"PAYLASIM SOZU:">>]
    ELSE [name |-> <<"PERSONA NAME:">>, bio |-> <<"BIO:">>,
          traits |-> <<"TRAITS:", "FEATURES:">>,
          quote |-> <<"SHARE QUOTE:", "QUOTE:">>]

\* keywords.get(language, keywords['en'])
kw_of(lang) == IF lang \in DOMAIN keywords THEN keywords[lang] ELSE keywords["en"]

\* any(line.startswith(k) for klist in kw.values() for k in klist)
any_keyword(line, kw) ==
    \/ any_startswith(line, kw.name)
    \/ any_startswith(line, kw.bio)
    \/ any_startswith(line, kw.traits)
    \/ any_startswith(line, kw.quote)

\* The state of the scan before the first line.
scan_init ==
    [name |-> <<>>, bio |-> <<>>, traits |-> <<>>, quote |-> <<>>,
     current_section |-> "None"]

\* The branches of the if/elif chain of the loop body.  In the name, bio and
\* quote branches the inner loop "for k in ...: if line.startswith(k): ...;
\* break" runs its body once, for the first keyword that matches, and what it
\* assigns does not depend on that keyword.
\* name_line as it would be if a name header closed the open section.
name_line_closes_section(st, line) ==
    [st EXCEPT !.name = after_colon(line), !.current_section = "None"]

\* name_line as it would be if a name already found were kept.
name_line_first_wins(st, line) ==
    IF st.name = <<>> THEN [st EXCEPT !.name = after_colon(line)] ELSE st

name_line(st, line) == [st EXCEPT !.name = after_colon(line)]

bio_line(st, line) ==
    LET bio_text == after_colon(line) IN
    [st EXCEPT !.current_section = "bio",
               !.bio = IF bio_text # <<>> THEN bio_text ELSE @]

traits_line(st, line) == [st EXCEPT !.current_section = "traits"]

quote_line(st, line) ==
    LET quote_text == after_colon(line) IN
    [st EXCEPT !.current_section = "quote",
               !.quote = IF quote_text # <<>> THEN quote_text ELSE @]

\* is_trait_bullet as it would be without the test line.startswith('-').
is_trait_bullet_loose(st, line) == st.current_section = "traits"

\* line.startswith('-') and current_section == 'traits'
is_trait_bullet(st, line) ==
    startswith(line, "-") /\ st.current_section = "traits"

\* trait_bullet as it would be if the entry were inserted in front.
trait_bullet_reversed(st, line) ==
    LET trait == strip(lstrip(line, {"-", " "})) IN
    IF trait # <<>> THEN [st EXCEPT !.traits = <<trait>> \o @] ELSE st

trait_bullet(st, line) ==
    LET trait == strip(lstrip(line, {"-", " "})) IN
    IF trait # <<>> THEN [st EXCEPT !.traits = Append(@, trait)] ELSE st

bio_continuation(st, line) == [st EXCEPT !.bio = @ \o <<" ">> \o line]

quote_continuation(st, line) == [st EXCEPT !.quote = @ \o <<" ">> \o line]

\* One turn of the loop "for line in lines" on the raw line.
scan_line(st, raw, kw) ==
    LET line == strip(raw) IN
    IF line = <<>> THEN st
    ELSE IF any_startswith(line, kw.name) THEN name_line(st, line)
    ELSE IF any_startswith(line, kw.bio) THEN bio_line(st, line)
    ELSE IF any_startswith(line, kw.traits) THEN traits_line(st, line)
    ELSE IF any_startswith(line, kw.quote) THEN quote_line(st, line)
    ELSE IF is_trait_bullet(st, line) THEN trait_bullet(st, line)
    ELSE IF st.current_section = "bio" /\ ~any_keyword(line, kw)
    THEN bio_continuation(st, line)
    ELSE IF st.current_section = "quote" /\ ~any_keyword(line, kw)
    THEN quote_continuation(st, line)
    ELSE st

\* The loop over the first n lines.
RECURSIVE scan(_, _, _)
scan(ls, n, kw) ==
    IF n = 0 THEN scan_init ELSE scan_line(scan(ls, n - 1, kw), ls[n], kw)

\* The record returned by the except branch.
fallback_record(lang) ==
    [name   |-> IF lang = "en" THEN <<"Mysterious Persona">>
                ELSE <<"Gizemli Persona">>,
     bio    |-> IF lang = "en" THEN <<"A unique and fascinating individual.">>
                ELSE <<"Benzersiz ve buyuleyici bir birey.">>,
     traits |-> IF lang = "en"
                THEN << <<"Unique">>, <<"Mysterious">>, <<"Charismatic">>,
                        <<"Powerful">>, <<"Inspiring">> >>
                ELSE << <<"Benzersiz">>, <<"Gizemli">>, <<"Karizmatik">>,
                        <<"Guclu">>, <<"Ilham Verici">> >>,
     quote  |-> IF lang = "en" THEN <<"Be yourself, everyone else is taken.">>
                ELSE <<"Kendin ol, digerleri zaten alinmis.">>]

\* apply_fallbacks as it would be without the fallback of the quote.
apply_fallbacks_no_quote(st, lang) ==
    [name   |-> IF st.name = <<>> THEN fallback_record(lang).name ELSE st.name,
     bio    |-> IF st.bio = <<>> THEN fallback_record(lang).bio ELSE st.bio,
     traits |-> IF st.traits = <<>> THEN fallback_record(lang).traits
                ELSE st.traits,
     quote  |-> st.quote]

\* apply_fallbacks as it would be if a missing name replaced the whole record
\* and nothing else were tested.
apply_fallbacks_all_or_none(st, lang) ==
    IF st.name = <<>> THEN fallback_record(lang)
    ELSE [name |-> st.name, bio |-> st.bio, traits |-> st.traits,
          quote |-> st.quote]

\* The block "# Fallbacks" applied to the state the scan ended in.
apply_fallbacks(st, lang) ==
    [name   |-> IF st.name = <<>>
                THEN (IF lang = "en" THEN <<"Mysterious Persona">>
                      ELSE <<"Gizemli Persona">>)
                ELSE st.name,
     bio    |-> IF st.bio = <<>>
                THEN (IF lang = "en"
                      THEN <<"A unique and fascinating individual.">>
                      ELSE <<"Benzersiz ve buyuleyici bir birey.">>)
                ELSE st.bio,
     traits |-> IF st.traits = <<>>
                THEN (IF lang = "en"
                      THEN << <<"Unique">>, <<"Mysterious">>, <<"Charismatic">>,
                              <<"Powerful">>, <<"Inspiring">> >>
                      ELSE << <<"Benzersiz">>, <<"Gizemli">>, <<"Karizmatik">>,
                              <<"Guclu">>, <<"Ilham Verici">> >>)
                ELSE st.traits,
     quote  |-> IF st.quote = <<>>
                THEN (IF lang = "en"
                      THEN <<"Be yourself, everyone else is taken.">>
                      ELSE <<"Kendin ol, digerleri zaten alinmis.">>)
                ELSE st.quote]

\* response.strip().split('\n')
response_lines(text) == split(strip(text), "\n")

\* A response that is no string makes response.strip() raise: the except
\* branch returns the whole fallback record.
parse_persona_response(resp, lang) ==
    IF resp.is_str
    THEN LET ls == response_lines(resp.text) IN
         apply_fallbacks(scan(ls, Len(ls), kw_of(lang)), lang)
    ELSE fallback_record(lang)

(***************************************************************************)
(* The inputs of the parser.                                               *)
(***************************************************************************)
LineSet ==
    { <<>>, <<"a">>, <<" ", "b">>,
      <<"-">>, <<"-", " ", "b">>, <<"-", "-", "a">>,
      <<"PERSONA ADI:">>, <<"PERSONA ADI:", "a">>, <<"PERSONA ADI:", " ", "b">>,
      <<"PERSONA NAME:", "a">>, <<"PERSONA NAME:", " ", "b">>,
      <<"BIO:">>, <<"BIO:", "a">>, <<"BiO:", " ", "b">>,
      <<"TRAITS:">>,
      <<"QUOTE:">>, <<"SHARE QUOTE:", " ", "b">> }

Languages == {"tr", "en", "de"}

RECURSIVE join(_, _)
join(ls, sep) ==
    IF ls = <<>> THEN <<>>
    ELSE IF Len(ls) = 1 THEN ls[1]
    ELSE ls[1] \o <<sep>> \o join(Tail(ls), sep)

Texts == UNION {[1..n -> LineSet] : n \in 0..MaxLines}

str(text) == [is_str |-> TRUE, text |-> text]
NotAString == [is_str |-> FALSE, text |-> <<>>]

no_result == [name |-> <<>>, bio |-> <<>>, traits |-> <<>>, quote |-> <<>>]

(***************************************************************************)
(* The state of the server after start-up.  None is the Python None; a     *)
(* value that may be None is a string.  A missing document or object is    *)
(* the empty sequence, a present one a sequence of one record.             *)
(***************************************************************************)
None == "None"

ThemeNames == {"Midnight CEO", "Dark Charmer", "Alpha Strategist", "Glam Diva"}

\* The entry of a theme: the three style descriptions are fixed texts.
theme_entry(name) ==
    [style |-> <<"style", name>>,
     style_female |-> <<"style_female", name>>,
     style_male |-> <<"style_male", name>>,
     enabled |-> TRUE,
     prompt_override |-> None]

themes_at_startup == [name \in ThemeNames |-> theme_entry(name)]

ADMIN_API_KEY == "admin_secret_key_change_me"

\* The locals of a generate-persona request that has not arrived; calls is
\* what the request in progress has asked of the gender classifier and of
\* the image providers so far, and the downloads that were answered.
gen_idle ==
    [pc |-> "idle", id |-> 0, persona_theme |-> None, language |-> None,
     user_gender |-> None, persona_data |-> no_result,
     detected_gender |-> None, gender_confidence |-> 0, style_desc |-> <<>>,
     style_used |-> None, attempts |-> 0, avatar_url |-> None,
     avatar_base64 |-> <<>>, provider |-> None, persona |-> <<>>,
     status_code |-> 0, detail |-> None, calls |-> <<>>]

remix_idle ==
    [pc |-> "idle", original |-> <<>>, count |-> 0, i |-> 0,
     variation |-> <<>>, variations |-> <<>>]

no_reply == [op |-> None, status_code |-> 0]

server_idle ==
    /\ REPLICATE_API_TOKEN = ""
    /\ PERSONA_THEMES = themes_at_startup
    /\ personas = <<>>
    /\ persona_variations = <<>>
    /\ config = <<>>
    /\ purchases = <<>>
    /\ gen = [r \in 1..MaxRequests |-> gen_idle]
    /\ remix = remix_idle
    /\ reply = no_reply

wrap_idle ==
    /\ words = <<>>
    /\ space_width = 0
    /\ site = "none"
    /\ lines = <<>>
    /\ drawn = <<>>
    /\ wrap_pc = "idle"

slide2_idle ==
    /\ traits = <<>>
    /\ trait_i = 1
    /\ y_pos = 0
    /\ draw2 = <<>>
    /\ slide2_pc = "idle"

ParseInit ==
    /\ response \in {str(join(t, "\n")) : t \in Texts} \cup {NotAString}
    /\ language \in Languages
    /\ persona_data = no_result
    /\ parse_pc = "start"
    /\ wrap_idle
    /\ server_idle
    /\ slide2_idle

Parse ==
    /\ parse_pc = "start"
    /\ persona_data' = parse_persona_response(response, language)
    /\ parse_pc' = "done"
    /\ UNCHANGED <<response, language>>
    /\ UNCHANGED wrap_vars
    /\ UNCHANGED server_vars
    /\ UNCHANGED slide2_vars

ParseNext == Parse

SpecParse == ParseInit /\ [][ParseNext]_vars

(***************************************************************************)
(* Properties of parse_persona_response, checked under SpecParse.  What    *)
(* the properties expect is stated from the text of the response alone:    *)
(* the header a line starts with, and the section the last bio, traits or  *)
(* quote header before a line opened.                                      *)
(***************************************************************************)
NameHeaders == {"PERSONA ADI:", "PERSONA NAME:"}
BioHeaders == {"BiO:", "BIO:"}
TraitsHeaders == {"OZELLiKLER:", "TRAITS:", "FEATURES:"}
QuoteHeaders == {"PAYLASIM SOZU:", "SHARE QUOTE:", "QUOTE:"}
AllHeaders == NameHeaders \cup BioHeaders \cup TraitsHeaders \cup QuoteHeaders

Parsed == parse_pc = "done" /\ response.is_str

\* The lines of the response, each one trimmed.
RECURSIVE trimmed(_)
trimmed(ls) == IF ls = <<>> THEN <<>> ELSE <<strip(Head(ls))>> \o trimmed(Tail(ls))

InputLines == trimmed(response_lines(response.text))

StartsWithOneOf(l, hs) == l # <<>> /\ l[1] \in hs

Indexes(L, hs) == {i \in DOMAIN L : StartsWithOneOf(L[i], hs)}

Min(S) == CHOOSE x \in S : \A y \in S : x <= y
Max(S) == CHOOSE x \in S : \A y \in S : y <= x

\* The section the last bio, traits or quote header among L[1..n] opened.
RECURSIVE CursorAfter(_, _)
CursorAfter(L, n) ==
    IF n = 0 THEN "None"
    ELSE IF StartsWithOneOf(L[n], BioHeaders) THEN "bio"
    ELSE IF StartsWithOneOf(L[n], TraitsHeaders) THEN "traits"
    ELSE IF StartsWithOneOf(L[n], QuoteHeaders) THEN "quote"
    ELSE CursorAfter(L, n - 1)

\* What the scan found, before the fallbacks.
Scanned ==
    LET ls == response_lines(response.text) IN scan(ls, Len(ls), kw_of(language))

\* C1: parse_persona_response is total: whatever the response (empty, blank,
\* without header, garbage, or no string at all, which makes the scan raise)
\* and whatever the language, the call returns a record whose name, bio and
\* quote are non-empty and whose traits hold at least one entry, each
\* non-empty.
C1_Totality ==
    /\ parse_pc = "start" =>
          DOMAIN parse_persona_response(response, language)
              = {"name", "bio", "traits", "quote"}
    /\ parse_pc = "done" =>
          /\ persona_data.name # <<>>
          /\ persona_data.bio # <<>>
          /\ persona_data.quote # <<>>
          /\ Len(persona_data.traits) >= 1
          /\ \A i \in DOMAIN persona_data.traits : persona_data.traits[i] # <<>>

\* A call whose scan raised: the whole fallback record is returned.
C1_Witness ==
    /\ parse_pc = "done"
    /\ ~response.is_str
    /\ persona_data = fallback_record(language)

\* C2: a text with one line that starts with 'PERSONA ADI:' and one that
\* starts with 'PERSONA NAME:', both with a value, gives the name of the
\* Turkish-labelled line for language 'tr' and the name of the
\* English-labelled line for language 'en'.
C2_LabelPriority ==
    Parsed =>
        LET L == InputLines
            tr == Indexes(L, {"PERSONA ADI:"})
            en == Indexes(L, {"PERSONA NAME:"})
        IN  (/\ Cardinality(tr) = 1
             /\ Cardinality(en) = 1
             /\ \A i \in tr \cup en : after_colon(L[i]) # <<>>)
            => /\ language = "tr" =>
                    persona_data.name = after_colon(L[Min(tr)])
               /\ language = "en" =>
                    persona_data.name = after_colon(L[Min(en)])

\* The name a name-header line gives: the text after its ':' trimmed, or the
\* placeholder of the language when that text is empty.
NameOfLine(l) ==
    IF after_colon(l) # <<>> THEN after_colon(l) ELSE fallback_record(language).name

RECURSIVE NonBlank(_, _, _)
NonBlank(L, from, to) ==
    IF from > to THEN <<>>
    ELSE (IF L[from] # <<>> THEN <<L[from]>> ELSE <<>>) \o NonBlank(L, from + 1, to)

\* The index of the first line after h that starts with a header, or Len(L) + 1.
NextHeader(L, h) ==
    LET later == {i \in Indexes(L, AllHeaders) : i > h} IN
    IF later = {} THEN Len(L) + 1 ELSE Min(later)

\* What C4 expects of the field whose headers are hs: with a single header
\* line for the field, t after its ':' and continuation lines up to the next
\* header (one that moves the cursor), the space-joined t, l1, .., ln.
Accumulated(hs, value) ==
    LET L == InputLines
        H == Indexes(L, hs)
    IN  Cardinality(H) = 1 =>
            LET h == Min(H)
                e == NextHeader(L, h)
                t == after_colon(L[h])
                pieces == (IF t # <<>> THEN <<t>> ELSE <<>>)
                              \o NonBlank(L, h + 1, e - 1)
            IN  (/\ pieces # <<>>
                 /\ e <= Len(L) => ~StartsWithOneOf(L[e], NameHeaders))
                => value = join(pieces, " ")

\* C4: a bio (quote) header line with text t after ':' followed by
\* continuation lines l1..ln gives the bio (quote) made of t, when non-empty,
\* and l1..ln joined by single spaces, without leading or trailing space.
C4_Accumulation ==
    Parsed => /\ Accumulated(BioHeaders, persona_data.bio)
              /\ Accumulated(QuoteHeaders, persona_data.quote)

\* The entry a bullet line gives: the line without its first '-' (C5 as
\* stated), or without any of its leading '-' and ' ' (C5 amended), trimmed.
BulletEntry(l, all_markers) ==
    IF all_markers THEN strip(LStripSet(l, {"-", " "})) ELSE strip(Tail(l))

\* The entries of the lines of L[1..n] that start with '-' while the cursor
\* is 'traits', the empty ones left out, in the order of the lines.
RECURSIVE BulletEntries(_, _, _)
BulletEntries(L, n, all_markers) ==
    IF n = 0 THEN <<>>
    ELSE LET before == BulletEntries(L, n - 1, all_markers)
             l == L[n]
         IN  IF /\ StartsWithOneOf(l, {"-"})
                /\ CursorAfter(L, n - 1) = "traits"
                /\ BulletEntry(l, all_markers) # <<>>
             THEN Append(before, BulletEntry(l, all_markers))
             ELSE before

TraitsFrom(entries) ==
    IF entries = <<>> THEN fallback_record(language).traits ELSE entries

\* C5 as stated: each bullet line gives the line without the bullet marker.
C5_TraitOrdering ==
    Parsed =>
        persona_data.traits =
            TraitsFrom(BulletEntries(InputLines, Len(InputLines), FALSE))

\* C5, amended: every line that starts with '-' while the cursor is 'traits'
\* contributes, after stripping all its leading '-' and space characters (not
\* only the first marker) and the surrounding whitespace, one entry when the
\* remainder is non-empty and nothing otherwise; the traits returned are
\* exactly these entries in the order of their lines, however many, and the
\* placeholder list when there is none.
C5_TraitOrderingAllMarkers ==
    Parsed =>
        persona_data.traits =
            TraitsFrom(BulletEntries(InputLines, Len(InputLines), TRUE))

\* Two bullet lines under a traits header, one of them with two markers.
C5_Witness ==
    /\ Parsed
    /\ InputLines = << <<"TRAITS:">>, <<"-", " ", "b">>, <<"-", "-", "a">> >>
    /\ persona_data.traits = << <<"b">>, <<"a">> >>

\* C6: after the scan each of name, bio, traits, quote is replaced by the
\* placeholder of the language if and only if the scan left it empty,
\* whatever the other fields are; a field the scan filled is returned as the
\* scan left it; the placeholder trait list has exactly 5 entries.
C6_FallbackPerField ==
    Parsed =>
        LET st == Scanned
            fb == fallback_record(language)
        IN  /\ persona_data.name = (IF st.name = <<>> THEN fb.name ELSE st.name)
            /\ persona_data.bio = (IF st.bio = <<>> THEN fb.bio ELSE st.bio)
            /\ persona_data.traits =
                   (IF st.traits = <<>> THEN fb.traits ELSE st.traits)
            /\ persona_data.quote =
                   (IF st.quote = <<>> THEN fb.quote ELSE st.quote)
            /\ Len(fb.traits) = 5
            /\ fb.name # <<>> /\ fb.bio # <<>> /\ fb.quote # <<>>

\* The scan filled name and traits and left bio and quote empty.
C6_Witness ==
    /\ Parsed
    /\ Scanned.name # <<>> /\ Scanned.traits # <<>>
    /\ Scanned.bio = <<>> /\ Scanned.quote = <<>>
    /\ persona_data.name = Scanned.name
    /\ persona_data.traits = Scanned.traits
    /\ persona_data.bio = fallback_record(language).bio
    /\ persona_data.quote = fallback_record(language).quote

\* Line n of L is one of the lines C7 calls discarded: it starts with no
\* header and either no bio, traits or quote header came before it, or the
\* cursor is 'traits' and the line is no bullet.
Discarded(L, n) ==
    /\ L[n] # <<>>
    /\ ~StartsWithOneOf(L[n], AllHeaders)
    /\ \/ CursorAfter(L, n - 1) = "None"
       \/ CursorAfter(L, n - 1) = "traits" /\ ~StartsWithOneOf(L[n], {"-"})

RECURSIVE WithoutDiscarded(_, _)
WithoutDiscarded(L, n) ==
    IF n = 0 THEN <<>>
    ELSE WithoutDiscarded(L, n - 1) \o (IF Discarded(L, n) THEN <<>> ELSE <<L[n]>>)

\* C7: a non-header line met before any bio, traits or quote header, and a
\* non-bullet, non-header line met while the cursor is 'traits', leave name,
\* bio, traits, quote and the cursor as they were, and the record returned is
\* the one returned for the text without these lines.
C7_DiscardedLines ==
    Parsed =>
        LET L == InputLines
            kw == kw_of(language)
        IN  /\ \A n \in DOMAIN L :
                   Discarded(L, n) => scan(L, n, kw) = scan(L, n - 1, kw)
            /\ persona_data =
                   parse_persona_response(
                       str(join(WithoutDiscarded(L, Len(L)), "\n")), language)

\* A text with a line discarded before the first header and a line discarded
\* under the traits header.
C7_Witness ==
    /\ Parsed
    /\ LET L == InputLines IN
       /\ Len(L) = 3
       /\ Discarded(L, 1)
       /\ CursorAfter(L, 2) = "traits"
       /\ Discarded(L, 3)

\* C8: for a language tag other than 'tr' and 'en' the record returned is the
\* one returned for language 'en' on the same text.
C8_UnknownLanguageIsEnglish ==
    parse_pc = "done" =>
        (language \notin {"tr", "en"}
            => persona_data = parse_persona_response(response, "en"))

(***************************************************************************)
(* The word-wrap loop of generate_share_card and generate_story_pack.      *)
(* A word is modelled by the width the font gives it; a line is the        *)
(* sequence of its words, and the measured width of ' '.join(line) is the  *)
(* sum of the widths of its words and of the spaces between them.          *)
(***************************************************************************)
width == 1080
share_card_margin == 100
trait_margin == 250

Sites == {"share_card_quote", "slide2_trait", "slide3_quote"}

\* The right-hand side of the comparison "bbox[2] - bbox[0] > ..." per site.
max_width(s) ==
    IF s = "slide2_trait" THEN width - trait_margin ELSE width - share_card_margin

RECURSIVE sum(_)
sum(ws) == IF ws = <<>> THEN 0 ELSE Head(ws) + sum(Tail(ws))

\* bbox = draw.textbbox((0, 0), ' '.join(line), font); bbox[2] - bbox[0]
textwidth(line, sp) ==
    IF line = <<>> THEN 0 ELSE sum(line) + sp * (Len(line) - 1)

wrap_init == [lines |-> <<>>, current_line |-> <<>>]

\* wrap_word as it would be if the word that overflowed the line were dropped.
wrap_word_drop(st, word, max, sp) ==
    LET appended == Append(st.current_line, word) IN
    IF textwidth(appended, sp) > max
    THEN [lines |-> IF st.current_line # <<>>
                    THEN Append(st.lines, st.current_line)
                    ELSE st.lines,
          current_line |-> <<>>]
    ELSE [lines |-> st.lines, current_line |-> appended]

\* wrap_word as it would be without current_line.pop(): the line is closed
\* with the word that overflowed it.
wrap_word_no_pop(st, word, max, sp) ==
    LET appended == Append(st.current_line, word) IN
    IF textwidth(appended, sp) > max
    THEN [lines |-> Append(st.lines, appended), current_line |-> <<>>]
    ELSE [lines |-> st.lines, current_line |-> appended]

\* wrap_word as it would be with >= in place of >.
wrap_word_geq(st, word, max, sp) ==
    LET appended == Append(st.current_line, word) IN
    IF textwidth(appended, sp) >= max
    THEN [lines |-> IF st.current_line # <<>>
                    THEN Append(st.lines, st.current_line)
                    ELSE st.lines,
          current_line |-> <<word>>]
    ELSE [lines |-> st.lines, current_line |-> appended]

\* One turn of the loop "for word in words".
wrap_word(st, word, max, sp) ==
    LET appended == Append(st.current_line, word) IN
    IF textwidth(appended, sp) > max
    THEN \* current_line.pop(); if current_line: lines.append(...)
         [lines |-> IF st.current_line # <<>>
                    THEN Append(st.lines, st.current_line)
                    ELSE st.lines,
          current_line |-> <<word>>]
    ELSE [lines |-> st.lines, current_line |-> appended]

\* The loop over the first n words.
RECURSIVE wrap_loop(_, _, _, _)
wrap_loop(ws, n, max, sp) ==
    IF n = 0 THEN wrap_init
    ELSE wrap_word(wrap_loop(ws, n - 1, max, sp), ws[n], max, sp)

\* The loop and the "if current_line: lines.append(...)" that follows it.
wrap_text(ws, max, sp) ==
    LET st == wrap_loop(ws, Len(ws), max, sp) IN
    IF st.current_line # <<>> THEN Append(st.lines, st.current_line) ELSE st.lines

\* The k of "for line in lines[:k]" per site.
line_cap(s) ==
    IF s = "share_card_quote" THEN 3 ELSE IF s = "slide2_trait" THEN 2 ELSE 4

\* first_lines as it would be if the last line drawn were marked as cut.
first_lines_marked(ls, k) ==
    IF Len(ls) <= k THEN ls
    ELSE SubSeq(ls, 1, k - 1) \o <<Append(ls[k], 0)>>

\* lines[:k]
first_lines(ls, k) == IF Len(ls) <= k THEN ls ELSE SubSeq(ls, 1, k)

(***************************************************************************)
(* The inputs of the word wrap: the widths the font may give to a word and *)
(* to a space.                                                             *)
(***************************************************************************)
WordWidths == {409, 410, 484, 485, 981}
SpaceWidths == {10, 12}

WordSeqs == UNION {[1..n -> WordWidths] : n \in 0..MaxWords}

parse_idle ==
    /\ response = str(<<>>)
    /\ language = "tr"
    /\ persona_data = no_result
    /\ parse_pc = "idle"

WrapInit ==
    /\ words \in WordSeqs
    /\ space_width \in SpaceWidths
    /\ site \in Sites
    /\ lines = <<>>
    /\ drawn = <<>>
    /\ wrap_pc = "start"
    /\ parse_idle
    /\ server_idle
    /\ slide2_idle

Wrap ==
    /\ wrap_pc = "start"
    /\ lines' = wrap_text(words, max_width(site), space_width)
    /\ drawn' = first_lines(lines', line_cap(site))
    /\ wrap_pc' = "done"
    /\ UNCHANGED <<words, space_width, site>>
    /\ UNCHANGED parse_vars
    /\ UNCHANGED server_vars
    /\ UNCHANGED slide2_vars

WrapNext == Wrap

SpecWrap == WrapInit /\ [][WrapNext]_vars

(***************************************************************************)
(* Properties of the word-wrap loop, checked under SpecWrap.               *)
(***************************************************************************)
Wrapped == wrap_pc = "done"

\* lines and current_line after the first k words.
WrapStateAfter(k) == wrap_loop(words, k, max_width(site), space_width)

\* C9 as stated: no line produced by the loop is wider than the maximum of
\* its call site, also when a single word is wider than the maximum.
C9_LinesWithinMaxWidth ==
    Wrapped =>
        \A i \in DOMAIN lines :
            textwidth(lines[i], space_width) <= max_width(site)

\* C9, amended: every line produced by the loop that holds more than one word
\* has measured width at most the maximum of its call site (980 for the
\* share-card and slide-3 quote, 830 for a slide-2 trait); a line is wider
\* than the maximum only when it is a single word that is itself wider than
\* the maximum, which the loop puts unbroken on a line of its own.
C9_LinesWithinMaxWidthUnlessOneWord ==
    Wrapped =>
        /\ max_width(site) \in {980, 830}
        /\ \A i \in DOMAIN lines :
               \/ textwidth(lines[i], space_width) <= max_width(site)
               \/ Len(lines[i]) = 1 /\ lines[i][1] > max_width(site)

\* A wrap that produced a line of one word wider than the maximum and a line
\* of several words.
C9_Witness ==
    /\ Wrapped
    /\ \E i \in DOMAIN lines :
           Len(lines[i]) = 1 /\ lines[i][1] > max_width(site)
    /\ \E i \in DOMAIN lines :
           Len(lines[i]) >= 2 /\ textwidth(lines[i], space_width) <= max_width(site)

\* C10: when a word makes the measured width of the candidate line exactly the
\* maximum it stays on the current line; when it makes the width the maximum
\* plus one, the current line is closed without the word (no line is emitted
\* when the word was alone on it) and the word starts the next line.  In the
\* lines produced, the first word of a line never fitted on the line before.
C10_Boundary ==
    Wrapped =>
        /\ \A k \in 1..Len(words) :
               LET before == WrapStateAfter(k - 1)
                   after == WrapStateAfter(k)
                   candidate == Append(before.current_line, words[k])
                   w == textwidth(candidate, space_width)
               IN  /\ w = max_width(site) =>
                          /\ after.current_line = candidate
                          /\ after.lines = before.lines
                   /\ w = max_width(site) + 1 =>
                          /\ after.current_line = <<words[k]>>
                          /\ after.lines =
                                 (IF before.current_line # <<>>
                                  THEN Append(before.lines, before.current_line)
                                  ELSE before.lines)
        /\ \A i \in 1..(Len(lines) - 1) :
               textwidth(Append(lines[i], lines[i + 1][1]), space_width)
                   > max_width(site)

\* A wrap in which one word exceeded the maximum by one and was moved to the
\* next line, and another word reached the maximum exactly and stayed.
C10_Witness ==
    /\ Wrapped
    /\ \E k \in 1..Len(words) :
           LET before == WrapStateAfter(k - 1) IN
           /\ before.current_line # <<>>
           /\ textwidth(Append(before.current_line, words[k]), space_width)
                  = max_width(site) + 1
    /\ \E i \in DOMAIN lines :
           Len(lines[i]) >= 2 /\ textwidth(lines[i], space_width) = max_width(site)

RECURSIVE flatten(_)
flatten(ls) == IF ls = <<>> THEN <<>> ELSE Head(ls) \o flatten(Tail(ls))

\* C11: the lines the greedy wrap produces, before the cap, are all non-empty
\* and their words read line after line are the input words in the input
\* order, none lost, duplicated or moved; no word gives no line.
C11_WrapLosesNothing ==
    Wrapped =>
        /\ \A i \in DOMAIN lines : lines[i] # <<>>
        /\ flatten(lines) = words
        /\ words = <<>> => lines = <<>>

\* A wrap of distinct words over several lines, one of them of several words.
C11_Witness ==
    /\ Wrapped
    /\ Len(lines) >= 3
    /\ \E i \in DOMAIN lines : Len(lines[i]) >= 2
    /\ \E i, j \in DOMAIN words : words[i] # words[j]

\* C12: the lines drawn are the first k lines of the wrap result, unchanged
\* and in order, with k = 3 for the share-card quote, 2 for a slide-2 trait
\* and 4 for the slide-3 quote; the lines after the k-th are dropped without
\* a marker and the loop ends normally.
C12_LineCap ==
    Wrapped =>
        LET k == IF site = "share_card_quote" THEN 3
                 ELSE IF site = "slide2_trait" THEN 2 ELSE 4
        IN  /\ Len(drawn) = (IF Len(lines) < k THEN Len(lines) ELSE k)
            /\ \A i \in DOMAIN drawn : drawn[i] = lines[i]

\* A slide-3 quote wrapped into five lines, four of them drawn.
C12_Witness ==
    /\ Wrapped
    /\ site = "slide3_quote"
    /\ Len(lines) = 5
    /\ Len(drawn) = 4

(***************************************************************************)
(* The request handlers.  A handler runs without interruption from one     *)
(* await to the next: an action is the code between two awaits, and the    *)
(* outcome of the awaited call (a value or an exception) is its input.     *)
(* uuid4 is modelled by a fresh number: the persona of request r gets r,   *)
(* a persona stored by an earlier run of the server 0, the n-th variation  *)
(* stored -n.                                                              *)
(***************************************************************************)
truthy(s) == s # None /\ s # ""

\* base64.b64encode and base64.b64decode on byte strings of whole chunks:
\* the PNG signature encodes to "iVBOR", other bytes to "anVuaw".
b64encode(bytes) ==
    [i \in DOMAIN bytes |-> IF bytes[i] = "PNG" THEN "iVBOR" ELSE "anVuaw"]

b64decode(text) ==
    [i \in DOMAIN text |-> IF text[i] = "iVBOR" THEN "PNG" ELSE "junk"]

\* Image_open_ok as it would be if any bytes at all made an image.
Image_open_lenient(data) == data # <<>>

\* Image.open(BytesIO(data)) succeeds on data that starts as an image.
Image_open_ok(data) == data # <<>> /\ data[1] = "PNG"

\* db.personas.find_one({"id": persona_id})
find_one(collection, persona_id) ==
    IF \E i \in DOMAIN collection : collection[i].id = persona_id
    THEN LET i == CHOOSE j \in DOMAIN collection :
                      /\ collection[j].id = persona_id
                      /\ \A k \in 1..(j - 1) : collection[k].id # persona_id
         IN  <<collection[i]>>
    ELSE <<>>

\* except Exception as e: raise HTTPException(status_code=500, ...), which
\* also catches an HTTPException raised inside the try block.
gen_failed(st, why) ==
    [gen_idle EXCEPT !.pc = "done", !.id = st.id,
                     !.persona_theme = st.persona_theme,
                     !.status_code = 500, !.detail = why]

\* choose_style as it would be if the gender were looked at before the
\* override.
choose_style_gender_first(theme_config, detected_gender) ==
    IF detected_gender = "female"
    THEN [style_desc |-> theme_config.style_female,
          style_used |-> "female_specific"]
    ELSE IF detected_gender = "male"
    THEN [style_desc |-> theme_config.style_male,
          style_used |-> "male_specific"]
    ELSE IF truthy(theme_config.prompt_override)
    THEN [style_desc |-> <<theme_config.prompt_override>>,
          style_used |-> "custom_override"]
    ELSE [style_desc |-> theme_config.style, style_used |-> "default"]

\* The style chosen for the avatar prompt.
choose_style(theme_config, detected_gender) ==
    IF truthy(theme_config.prompt_override)
    THEN [style_desc |-> <<theme_config.prompt_override>>,
          style_used |-> "custom_override"]
    ELSE IF detected_gender = "female"
    THEN [style_desc |-> theme_config.style_female,
          style_used |-> "female_specific"]
    ELSE IF detected_gender = "male"
    THEN [style_desc |-> theme_config.style_male,
          style_used |-> "male_specific"]
    ELSE [style_desc |-> theme_config.style, style_used |-> "default"]

\* GeneratedPersona(...): the record that is stored and returned.
GeneratedPersona(st) ==
    [id |-> st.id,
     persona_name |-> st.persona_data.name,
     bio_paragraph |-> st.persona_data.bio,
     traits |-> st.persona_data.traits,
     share_quote |-> st.persona_data.quote,
     avatar_base64 |-> st.avatar_base64,
     avatar_url |-> st.avatar_url,
     persona_theme |-> st.persona_theme,
     language |-> st.language,
     provider |-> st.provider,
     attempts |-> st.attempts,
     detected_gender |-> st.detected_gender,
     gender_confidence |-> st.gender_confidence,
     style_used |-> st.style_used]

\* create_persona as it would be without the test of the avatar.
create_persona_unchecked(st) ==
    [st EXCEPT !.persona = <<GeneratedPersona(st)>>, !.pc = "await_insert"]

\* From "if not avatar_base64: raise" to the await of insert_one.
create_persona(st) ==
    IF st.avatar_base64 = <<>>
    THEN gen_failed(st, "Avatar could not be generated")
    ELSE [st EXCEPT !.persona = <<GeneratedPersona(st)>>,
                    !.pc = "await_insert"]

\* after_loop as it would be if the fallback were called in every case.
after_loop_always_fallback(st) ==
    [st EXCEPT !.provider = "openai", !.pc = "await_openai",
               !.calls = Append(@, "generate_images")]

\* After the Replicate loop: the OpenAI fallback when there is no avatar.
after_loop(st) ==
    IF st.avatar_base64 = <<>>
    THEN [st EXCEPT !.provider = "openai", !.pc = "await_openai",
                    !.calls = Append(@, "generate_images")]
    ELSE create_persona(st)

max_attempts == 2

\* The Replicate loop up to its next await.  replicate.run blocks, so the
\* attempts that fail before a download follow each other at once; runs is
\* what replicate.run gives on the calls to come: "raise", None (an empty
\* output) or the URL of the image.
RECURSIVE replicate_loop(_, _)
replicate_loop(st, runs) ==
    IF st.attempts < max_attempts
    THEN LET st1 == [st EXCEPT !.attempts = @ + 1,
                               !.calls = Append(@, "replicate.run")]
             output == Head(runs)
         IN  IF output = "raise" \/ ~truthy(output)
             THEN replicate_loop(st1, Tail(runs))
             ELSE [st1 EXCEPT !.avatar_url = output, !.pc = "await_download"]
    ELSE after_loop(st)

\* From the return of chat.send_message to the next await.
text_generated(st, text, gender_info, runs, theme_table, token) ==
    LET detected == IF truthy(st.user_gender) THEN st.user_gender
                    ELSE gender_info.gender
        confidence == IF truthy(st.user_gender) THEN 100
                      ELSE gender_info.confidence
        chosen == choose_style(theme_table[st.persona_theme], detected)
        st1 == [st EXCEPT
                  !.persona_data = parse_persona_response(str(text),
                                                          st.language),
                  !.provider = "replicate",
                  !.detected_gender = detected,
                  !.gender_confidence = confidence,
                  !.style_desc = chosen.style_desc,
                  !.style_used = chosen.style_used,
                  !.calls = IF truthy(st.user_gender) THEN @
                            ELSE Append(@, "detect_gender_from_image")]
    IN  IF truthy(token) THEN replicate_loop(st1, runs) ELSE after_loop(st1)

\* The inputs of generate-persona and the outcomes of its providers.
ThemeInputs == {"Glam Diva", "Neon Ghost"}
LanguageInputs == {"tr"}
UserGenders == {None, "female"}
GenderInfos == {[gender |-> "male", confidence |-> 90],
                [gender |-> "unknown", confidence |-> 0]}
GoodText ==
    join(<< <<"PERSONA NAME:", " ", "b">>, <<"BIO:", " ", "a">>,
            <<"TRAITS:">>, <<"-", " ", "a">>, <<"-", " ", "b">>,
            <<"QUOTE:", " ", "a", " ", "b">> >>, "\n")
\* A text with a name and a trait and neither bio nor quote.
PartText ==
    join(<< <<"PERSONA ADI:", " ", "a">>, <<"OZELLiKLER:">>,
            <<"-", " ", "b">> >>, "\n")
LLMTexts == {PartText}
AdminKeys == {ADMIN_API_KEY, "guess", None}
Overrides == {None, "", "neon city at night"}
AvatarURL == "https://replicate.delivery/out.png"
RunOutcomes == {"raise", None, AvatarURL}
Runs == [1..max_attempts -> RunOutcomes]
ImageBytes == {<<>>, <<"PNG">>}

\* generate_persona up to the await of chat.send_message.
GenStart(r, theme, lang, gender) ==
    /\ gen[r].pc = "idle"
    /\ r > 1 => gen[r - 1].pc # "idle"
    /\ LET st == [gen_idle EXCEPT !.id = r, !.persona_theme = theme,
                                  !.language = lang, !.user_gender = gender]
       IN  gen' = [gen EXCEPT ![r] =
                     IF theme \notin DOMAIN PERSONA_THEMES
                        \/ ~PERSONA_THEMES[theme].enabled
                     THEN gen_failed(st, "theme is not available")
                     ELSE [st EXCEPT !.pc = "await_llm"]]
    /\ UNCHANGED <<REPLICATE_API_TOKEN, PERSONA_THEMES, personas,
                   persona_variations, config, purchases, remix, reply>>
    /\ UNCHANGED <<parse_vars, wrap_vars, slide2_vars>>

\* chat.send_message returns the text.
GenText(r, text, gender_info, runs) ==
    /\ gen[r].pc = "await_llm"
    /\ gen' = [gen EXCEPT ![r] =
                 text_generated(gen[r], text, gender_info, runs,
                                PERSONA_THEMES, REPLICATE_API_TOKEN)]
    /\ UNCHANGED <<REPLICATE_API_TOKEN, PERSONA_THEMES, personas,
                   persona_variations, config, purchases, remix, reply>>
    /\ UNCHANGED <<parse_vars, wrap_vars, slide2_vars>>

\* chat.send_message raises.
GenTextFails(r) ==
    /\ gen[r].pc = "await_llm"
    /\ gen' = [gen EXCEPT ![r] = gen_failed(gen[r], "text provider")]
    /\ UNCHANGED <<REPLICATE_API_TOKEN, PERSONA_THEMES, personas,
                   persona_variations, config, purchases, remix, reply>>
    /\ UNCHANGED <<parse_vars, wrap_vars, slide2_vars>>

\* client.get answers 200: the content is encoded and the loop is left.
GenDownload(r, content) ==
    /\ gen[r].pc = "await_download"
    /\ gen' = [gen EXCEPT ![r] =
                 after_loop([gen[r] EXCEPT
                               !.avatar_base64 = b64encode(content),
                               !.calls = Append(@, IF content = <<>>
                                                   THEN "get 200 empty"
                                                   ELSE "get 200")])]
    /\ UNCHANGED <<REPLICATE_API_TOKEN, PERSONA_THEMES, personas,
                   persona_variations, config, purchases, remix, reply>>
    /\ UNCHANGED <<parse_vars, wrap_vars, slide2_vars>>

\* client.get raises or answers another status: the loop goes on.
GenDownloadFails(r, runs) ==
    /\ gen[r].pc = "await_download"
    /\ gen' = [gen EXCEPT ![r] = replicate_loop(gen[r], runs)]
    /\ UNCHANGED <<REPLICATE_API_TOKEN, PERSONA_THEMES, personas,
                   persona_variations, config, purchases, remix, reply>>
    /\ UNCHANGED <<parse_vars, wrap_vars, slide2_vars>>

\* image_gen.generate_images returns a list of images, maybe empty.
GenOpenAI(r, images) ==
    /\ gen[r].pc = "await_openai"
    /\ gen' = [gen EXCEPT ![r] =
                 create_persona(IF Len(images) > 0
                                THEN [gen[r] EXCEPT !.avatar_base64 =
                                                      b64encode(images[1])]
                                ELSE gen[r])]
    /\ UNCHANGED <<REPLICATE_API_TOKEN, PERSONA_THEMES, personas,
                   persona_variations, config, purchases, remix, reply>>
    /\ UNCHANGED <<parse_vars, wrap_vars, slide2_vars>>

\* image_gen.generate_images raises.
GenOpenAIFails(r) ==
    /\ gen[r].pc = "await_openai"
    /\ gen' = [gen EXCEPT ![r] = gen_failed(gen[r], "image provider")]
    /\ UNCHANGED <<REPLICATE_API_TOKEN, PERSONA_THEMES, personas,
                   persona_variations, config, purchases, remix, reply>>
    /\ UNCHANGED <<parse_vars, wrap_vars, slide2_vars>>

\* GenInsert as it would be if the insert replaced the collection.
GenInsert_replacing(r) ==
    /\ gen[r].pc = "await_insert"
    /\ personas' = gen[r].persona
    /\ gen' = [gen EXCEPT ![r] =
                 [gen_idle EXCEPT !.pc = "done", !.id = r,
                                  !.persona_theme = gen[r].persona_theme,
                                  !.persona = gen[r].persona,
                                  !.status_code = 200]]
    /\ UNCHANGED <<REPLICATE_API_TOKEN, PERSONA_THEMES,
                   persona_variations, config, purchases, remix, reply>>
    /\ UNCHANGED <<parse_vars, wrap_vars, slide2_vars>>

\* db.personas.insert_one returns: the persona is stored and returned.
GenInsert(r) ==
    /\ gen[r].pc = "await_insert"
    /\ personas' = personas \o gen[r].persona
    /\ gen' = [gen EXCEPT ![r] =
                 [gen_idle EXCEPT !.pc = "done", !.id = r,
                                  !.persona_theme = gen[r].persona_theme,
                                  !.persona = gen[r].persona,
                                  !.status_code = 200]]
    /\ UNCHANGED <<REPLICATE_API_TOKEN, PERSONA_THEMES,
                   persona_variations, config, purchases, remix, reply>>
    /\ UNCHANGED <<parse_vars, wrap_vars, slide2_vars>>

\* GenInsertFails as it would be if the record were stored all the same.
GenInsertFails_stored(r) ==
    /\ gen[r].pc = "await_insert"
    /\ personas' = personas \o gen[r].persona
    /\ gen' = [gen EXCEPT ![r] = gen_failed(gen[r], "store")]
    /\ UNCHANGED <<REPLICATE_API_TOKEN, PERSONA_THEMES,
                   persona_variations, config, purchases, remix, reply>>
    /\ UNCHANGED <<parse_vars, wrap_vars, slide2_vars>>

\* db.personas.insert_one raises.
GenInsertFails(r) ==
    /\ gen[r].pc = "await_insert"
    /\ gen' = [gen EXCEPT ![r] = gen_failed(gen[r], "store")]
    /\ UNCHANGED <<REPLICATE_API_TOKEN, PERSONA_THEMES, personas,
                   persona_variations, config, purchases, remix, reply>>
    /\ UNCHANGED <<parse_vars, wrap_vars, slide2_vars>>

\* What the handlers other than generate_persona leave alone besides the
\* collections they name.
UNCHANGED_others ==
    UNCHANGED <<REPLICATE_API_TOKEN, gen, parse_vars, wrap_vars, slide2_vars>>

\* The HTTPException of a handler: status and detail.
HTTPException(op, status_code, detail) ==
    [op |-> op, status_code |-> status_code, detail |-> detail]

height == 1920

\* The card drawn by generate_share_card.
share_card(persona) ==
    [size |-> <<width, height>>,
     avatar |-> b64decode(persona.avatar_base64),
     persona_name |-> persona.persona_name,
     share_quote |-> persona.share_quote]

\* generate_share_card
generate_share_card(persona_id) ==
    /\ LET persona == find_one(personas, persona_id) IN
       reply' =
         IF persona = <<>>
         THEN HTTPException("share_card", 500, "Persona not found")
         ELSE IF ~Image_open_ok(b64decode(persona[1].avatar_base64))
         THEN HTTPException("share_card", 500, "cannot identify image file")
         ELSE [op |-> "share_card", status_code |-> 200,
               share_card_base64 |-> share_card(persona[1]),
               persona_id |-> persona_id]
    /\ UNCHANGED <<PERSONA_THEMES, personas, persona_variations, config,
                   purchases, remix>>
    /\ UNCHANGED_others

\* The three slides of the story pack, in the order of slides.append.
slide_1(persona) ==
    [slide |-> "avatar and name", size |-> <<width, height>>,
     avatar |-> b64decode(persona.avatar_base64),
     persona_name |-> persona.persona_name,
     persona_theme |-> persona.persona_theme]

slide_2(persona) ==
    [slide |-> "traits", size |-> <<width, height>>,
     traits |-> first_lines(persona.traits, 5)]

slide_3(persona) ==
    [slide |-> "quote and call to action", size |-> <<width, height>>,
     share_quote |-> persona.share_quote]

\* story_slides as it would be if a template left the traits slide out.
story_slides_by_template(persona, template) ==
    IF template = "minimal"
    THEN <<slide_1(persona), slide_3(persona), slide_3(persona)>>
    ELSE <<slide_1(persona), slide_2(persona), slide_3(persona)>>

story_slides(persona, template) ==
    <<slide_1(persona), slide_2(persona), slide_3(persona)>>

\* generate_story_pack
generate_story_pack(persona_id, template) ==
    /\ LET persona == find_one(personas, persona_id) IN
       reply' =
         IF persona = <<>>
         THEN HTTPException("story_pack", 500, "Persona not found")
         ELSE IF ~Image_open_ok(b64decode(persona[1].avatar_base64))
         THEN HTTPException("story_pack", 500, "cannot identify image file")
         ELSE LET slides == story_slides(persona[1], template) IN
              [op |-> "story_pack", status_code |-> 200,
               persona_id |-> persona_id,
               slide_1_base64 |-> slides[1],
               slide_2_base64 |-> slides[2],
               slide_3_base64 |-> slides[3],
               template |-> template]
    /\ UNCHANGED <<PERSONA_THEMES, personas, persona_variations, config,
                   purchases, remix>>
    /\ UNCHANGED_others

RECURSIVE reversed(_)
reversed(seq) ==
    IF seq = <<>> THEN <<>> ELSE Append(reversed(Tail(seq)), Head(seq))

\* get_personas: the newest first.
get_personas ==
    /\ reply' = [op |-> "get_personas", status_code |-> 200,
                 personas |-> reversed(personas)]
    /\ UNCHANGED <<PERSONA_THEMES, personas, persona_variations, config,
                   purchases, remix>>
    /\ UNCHANGED_others

\* get_persona without "except HTTPException: raise": the 404 is caught by
\* "except Exception" as in the other handlers.
get_persona_no_reraise(persona_id) ==
    /\ LET persona == find_one(personas, persona_id) IN
       reply' =
         IF persona = <<>>
         THEN HTTPException("get_persona", 500, "Persona not found")
         ELSE [op |-> "get_persona", status_code |-> 200,
               persona |-> persona[1]]
    /\ UNCHANGED <<PERSONA_THEMES, personas, persona_variations, config,
                   purchases, remix>>
    /\ UNCHANGED_others

\* get_persona: the only handler that re-raises its HTTPException.
get_persona(persona_id) ==
    /\ LET persona == find_one(personas, persona_id) IN
       reply' =
         IF persona = <<>>
         THEN HTTPException("get_persona", 404, "Persona not found")
         ELSE [op |-> "get_persona", status_code |-> 200,
               persona |-> persona[1]]
    /\ UNCHANGED <<PERSONA_THEMES, personas, persona_variations, config,
                   purchases, remix>>
    /\ UNCHANGED_others

\* admin_toggle_persona as it would be if the override of the request were
\* stored whatever it is.
admin_toggle_persona_clearing(key, theme_name, enabled, prompt_override) ==
    /\ IF key # ADMIN_API_KEY
       THEN /\ reply' = HTTPException("toggle", 401, "Unauthorized")
            /\ UNCHANGED PERSONA_THEMES
       ELSE IF theme_name \notin DOMAIN PERSONA_THEMES
       THEN /\ reply' = HTTPException("toggle", 404,
                                      "Persona theme not found")
            /\ UNCHANGED PERSONA_THEMES
       ELSE LET updated == [PERSONA_THEMES[theme_name] EXCEPT
                             !.enabled = enabled,
                             !.prompt_override = prompt_override]
            IN  /\ PERSONA_THEMES' =
                     [PERSONA_THEMES EXCEPT ![theme_name] = updated]
                /\ reply' = [op |-> "toggle", status_code |-> 200,
                             theme_name |-> theme_name, config |-> updated]
    /\ UNCHANGED <<personas, persona_variations, config, purchases, remix>>
    /\ UNCHANGED_others

\* admin_toggle_persona as it would be if an unknown theme were added.
admin_toggle_persona_upsert(key, theme_name, enabled, prompt_override) ==
    /\ IF key # ADMIN_API_KEY
       THEN /\ reply' = HTTPException("toggle", 401, "Unauthorized")
            /\ UNCHANGED PERSONA_THEMES
       ELSE LET entry == IF theme_name \in DOMAIN PERSONA_THEMES
                         THEN PERSONA_THEMES[theme_name]
                         ELSE theme_entry(theme_name)
                updated == [entry EXCEPT
                             !.enabled = enabled,
                             !.prompt_override =
                                IF truthy(prompt_override)
                                THEN prompt_override ELSE @]
            IN  /\ PERSONA_THEMES' =
                     [name \in DOMAIN PERSONA_THEMES \cup {theme_name} |->
                        IF name = theme_name THEN updated
                        ELSE PERSONA_THEMES[name]]
                /\ reply' = [op |-> "toggle", status_code |-> 200,
                             theme_name |-> theme_name, config |-> updated]
    /\ UNCHANGED <<personas, persona_variations, config, purchases, remix>>
    /\ UNCHANGED_others

\* admin_toggle_persona
admin_toggle_persona(key, theme_name, enabled, prompt_override) ==
    /\ IF key # ADMIN_API_KEY
       THEN /\ reply' = HTTPException("toggle", 401, "Unauthorized")
            /\ UNCHANGED PERSONA_THEMES
       ELSE IF theme_name \notin DOMAIN PERSONA_THEMES
       THEN /\ reply' = HTTPException("toggle", 404,
                                      "Persona theme not found")
            /\ UNCHANGED PERSONA_THEMES
       ELSE LET updated == [PERSONA_THEMES[theme_name] EXCEPT
                             !.enabled = enabled,
                             !.prompt_override =
                                IF truthy(prompt_override)
                                THEN prompt_override ELSE @]
            IN  /\ PERSONA_THEMES' =
                     [PERSONA_THEMES EXCEPT ![theme_name] = updated]
                /\ reply' = [op |-> "toggle", status_code |-> 200,
                             theme_name |-> theme_name, config |-> updated]
    /\ UNCHANGED <<personas, persona_variations, config, purchases, remix>>
    /\ UNCHANGED_others

\* admin_stats
admin_stats(key) ==
    /\ reply' =
         IF key # ADMIN_API_KEY
         THEN HTTPException("stats", 401, "Unauthorized")
         ELSE [op |-> "stats", status_code |-> 200,
               total_personas |-> Len(personas),
               personas_by_theme |->
                 [name \in DOMAIN PERSONA_THEMES |->
                    Cardinality({i \in DOMAIN personas :
                                   personas[i].persona_theme = name})],
               active_themes |-> {name \in DOMAIN PERSONA_THEMES :
                                    PERSONA_THEMES[name].enabled}]
    /\ UNCHANGED <<PERSONA_THEMES, personas, persona_variations, config,
                   purchases, remix>>
    /\ UNCHANGED_others

\* PricingConfig(): the default prices, in cents of a dollar.
PricingConfig == [persona_single_usd |-> 199, persona_all_usd |-> 699]

\* get_pricing
get_pricing(key) ==
    /\ reply' =
         IF key # ADMIN_API_KEY
         THEN HTTPException("get_pricing", 401, "Unauthorized")
         ELSE [op |-> "get_pricing", status_code |-> 200,
               pricing |-> IF config = <<>> THEN PricingConfig
                           ELSE config[1]]
    /\ UNCHANGED <<PERSONA_THEMES, personas, persona_variations, config,
                   purchases, remix>>
    /\ UNCHANGED_others

\* update_pricing: update_one(..., upsert=True) on the pricing document.
update_pricing(key, pricing) ==
    /\ IF key # ADMIN_API_KEY
       THEN /\ reply' = HTTPException("update_pricing", 401, "Unauthorized")
            /\ UNCHANGED config
       ELSE /\ config' = <<pricing>>
            /\ reply' = [op |-> "update_pricing", status_code |-> 200,
                         pricing |-> pricing]
    /\ UNCHANGED <<PERSONA_THEMES, personas, persona_variations,
                   purchases, remix>>
    /\ UNCHANGED_others

\* validate_purchase
validate_purchase(product_id) ==
    /\ Len(purchases) < MaxPurchases
    /\ purchases' = Append(purchases, [product_id |-> product_id,
                                       status |-> "valid"])
    /\ reply' = [op |-> "validate_purchase", status_code |-> 200,
                 valid |-> TRUE, product_id |-> product_id]
    /\ UNCHANGED <<PERSONA_THEMES, personas, persona_variations, config,
                   remix>>
    /\ UNCHANGED_others

\* The variation built from the text of one call of the text provider.
variation_of(original, text, style, id) ==
    LET data == parse_persona_response(str(text), original.language) IN
    [id |-> id,
     original_persona_id |-> original.id,
     persona_name |-> data.name,
     bio_paragraph |-> data.bio,
     traits |-> data.traits,
     share_quote |-> data.quote,
     avatar_base64 |-> original.avatar_base64,
     persona_theme |-> original.persona_theme,
     language |-> original.language,
     variation_style |-> style]

variation_styles ==
    <<"more dramatic and intense", "softer and more approachable",
      "edgier and more rebellious">>

\* A bound of range() that stops at the second style.
variation_limit_two(variation_count) ==
    IF variation_count < 2 THEN variation_count ELSE 2

\* min(request.variation_count, 3), the bound of range().
variation_limit(variation_count) ==
    IF variation_count < 3 THEN variation_count ELSE 3

\* The body remix_persona returns.
remix_response(st) ==
    [op |-> "remix", status_code |-> 200,
     original_persona_id |-> st.original[1].id,
     variations |->
       [k \in DOMAIN st.variations |->
          [id |-> st.variations[k].id,
           persona_name |-> st.variations[k].persona_name,
           bio_paragraph |-> st.variations[k].bio_paragraph,
           traits |-> st.variations[k].traits,
           share_quote |-> st.variations[k].share_quote,
           avatar_base64 |-> st.variations[k].avatar_base64,
           variation_style |-> st.variations[k].variation_style]]]

\* remix_persona up to the first await of chat.send_message, or to its
\* return when the loop has nothing to do.
RemixStart(persona_id, variation_count) ==
    /\ remix.pc = "idle"
    /\ Len(persona_variations) < MaxVariations
    /\ LET original == find_one(personas, persona_id)
           st == [remix_idle EXCEPT !.original = original,
                                    !.count = variation_count]
       IN  IF original = <<>>
           THEN /\ reply' = HTTPException("remix", 500,
                                          "Original persona not found")
                /\ UNCHANGED remix
           ELSE IF variation_limit(variation_count) <= 0
           THEN /\ reply' = remix_response(st)
                /\ UNCHANGED remix
           ELSE /\ remix' = [st EXCEPT !.pc = "await_llm"]
                /\ UNCHANGED reply
    /\ UNCHANGED <<PERSONA_THEMES, personas, persona_variations, config,
                   purchases>>
    /\ UNCHANGED_others

\* chat.send_message returns: the variation is built.
RemixText(text) ==
    /\ remix.pc = "await_llm"
    /\ remix' = [remix EXCEPT
                   !.variation =
                      <<variation_of(remix.original[1], text,
                                     variation_styles[remix.i + 1],
                                     0 - (Len(persona_variations) + 1))>>,
                   !.pc = "await_insert"]
    /\ UNCHANGED <<PERSONA_THEMES, personas, persona_variations, config,
                   purchases, reply>>
    /\ UNCHANGED_others

\* chat.send_message or insert_one raises: the handler answers 500.
RemixFails ==
    /\ remix.pc \in {"await_llm", "await_insert"}
    /\ remix' = remix_idle
    /\ reply' = HTTPException("remix", 500, "provider")
    /\ UNCHANGED <<PERSONA_THEMES, personas, persona_variations, config,
                   purchases>>
    /\ UNCHANGED_others

\* db.persona_variations.insert_one returns: the next turn of the loop, or
\* the return.
RemixInsert ==
    /\ remix.pc = "await_insert"
    /\ persona_variations' = persona_variations \o remix.variation
    /\ LET st == [remix EXCEPT !.variations = @ \o remix.variation,
                               !.variation = <<>>,
                               !.i = @ + 1]
       IN  IF st.i < variation_limit(st.count)
           THEN /\ remix' = [st EXCEPT !.pc = "await_llm"]
                /\ UNCHANGED reply
           ELSE /\ remix' = remix_idle
                /\ reply' = remix_response(st)
    /\ UNCHANGED <<PERSONA_THEMES, personas, config, purchases>>
    /\ UNCHANGED_others

(***************************************************************************)
(* SpecGenerate: the generate-persona requests of a run against the calls  *)
(* of the admin toggle, with every outcome of the providers.               *)
(***************************************************************************)
GenerateInit ==
    /\ REPLICATE_API_TOKEN \in {"", "r8_token"}
    /\ PERSONA_THEMES = themes_at_startup
    /\ personas = <<>>
    /\ persona_variations = <<>>
    /\ config = <<>>
    /\ purchases = <<>>
    /\ gen = [r \in 1..MaxRequests |-> gen_idle]
    /\ remix = remix_idle
    /\ reply = no_reply
    /\ parse_idle
    /\ wrap_idle
    /\ slide2_idle

generate_persona ==
    \E r \in 1..MaxRequests :
        \/ \E theme \in ThemeInputs, lang \in LanguageInputs,
              gender \in UserGenders : GenStart(r, theme, lang, gender)
        \/ \E text \in LLMTexts, gender_info \in GenderInfos, runs \in Runs :
              GenText(r, text, gender_info, runs)
        \/ GenTextFails(r)
        \/ \E content \in ImageBytes : GenDownload(r, content)
        \/ \E runs \in Runs : GenDownloadFails(r, runs)
        \/ \E images \in {<<>>} \cup {<<bytes>> : bytes \in ImageBytes} :
              GenOpenAI(r, images)
        \/ GenOpenAIFails(r)
        \/ GenInsert(r)
        \/ GenInsertFails(r)

\* The toggles with the admin key, and those with a wrong or a missing key,
\* which are refused before the body is read.
GenerateNext ==
    \/ generate_persona
    \/ \E theme_name \in ThemeInputs, enabled \in BOOLEAN,
          prompt_override \in Overrides :
          admin_toggle_persona(ADMIN_API_KEY, theme_name, enabled,
                               prompt_override)
    \/ \E key \in AdminKeys \ {ADMIN_API_KEY} :
          admin_toggle_persona(key, "Glam Diva", FALSE, "neon city at night")

SpecGenerate == GenerateInit /\ [][GenerateNext]_vars

(***************************************************************************)
(* SpecServer: every handler of the API on a database that holds the       *)
(* persona of an earlier run, with one generate-persona request and one    *)
(* outcome of each kind per provider.                                      *)
(***************************************************************************)
\* The persona an earlier run stored through the OpenAI fallback.
earlier_persona(content) ==
    LET st == [gen_idle EXCEPT !.persona_theme = "Glam Diva",
                               !.language = "tr"]
        waiting == text_generated(st, GoodText,
                                  [gender |-> "unknown", confidence |-> 0],
                                  <<>>, themes_at_startup, "")
    IN  create_persona([waiting EXCEPT
                          !.avatar_base64 = b64encode(content)]).persona[1]

PersonaIds == {0, 1, 2}
Templates == {"default", "minimal"}
VariationCounts == {1, 5}
PricingInputs == {[persona_single_usd |-> 99, persona_all_usd |-> 499]}
ProductIds == {"persona_single"}

ServerInit ==
    /\ REPLICATE_API_TOKEN = "r8_token"
    /\ PERSONA_THEMES = themes_at_startup
    /\ personas = <<earlier_persona(<<"PNG">>)>>
    /\ persona_variations = <<>>
    /\ config = <<>>
    /\ purchases = <<>>
    /\ gen = [r \in 1..MaxRequests |-> gen_idle]
    /\ remix = remix_idle
    /\ reply = no_reply
    /\ parse_idle
    /\ wrap_idle
    /\ slide2_idle

remix_persona ==
    \/ \E persona_id \in PersonaIds, variation_count \in VariationCounts :
          RemixStart(persona_id, variation_count)
    \/ \E text \in {GoodText} : RemixText(text)
    \/ RemixFails
    \/ RemixInsert

ServerNext ==
    \/ \E r \in {1} :
          \/ GenStart(r, "Glam Diva", "tr", None)
          \/ GenText(r, GoodText, [gender |-> "unknown", confidence |-> 0],
                     <<AvatarURL, AvatarURL>>)
          \/ GenTextFails(r)
          \/ \E content \in {<<"PNG">>, <<"junk">>} : GenDownload(r, content)
          \/ GenDownloadFails(r, <<AvatarURL, AvatarURL>>)
          \/ \E images \in {<<>>, << <<"PNG">> >>} : GenOpenAI(r, images)
          \/ GenOpenAIFails(r)
          \/ GenInsert(r)
          \/ GenInsertFails(r)
    \/ \E persona_id \in PersonaIds : generate_share_card(persona_id)
    \/ \E persona_id \in PersonaIds, template \in Templates :
          generate_story_pack(persona_id, template)
    \/ remix_persona
    \/ get_personas
    \/ \E persona_id \in PersonaIds : get_persona(persona_id)
    \/ \E key \in {ADMIN_API_KEY, None}, theme_name \in ThemeInputs,
          enabled \in BOOLEAN :
          admin_toggle_persona(key, theme_name, enabled, None)
    \/ \E key \in {ADMIN_API_KEY, None} : admin_stats(key)
    \/ \E key \in {ADMIN_API_KEY, None} : get_pricing(key)
    \/ \E key \in {ADMIN_API_KEY, None}, pricing \in PricingInputs :
          update_pricing(key, pricing)
    \/ \E product_id \in ProductIds : validate_purchase(product_id)

SpecServer == ServerInit /\ [][ServerNext]_vars

(***************************************************************************)
(* Properties of the handlers, checked under SpecServer and SpecGenerate.  *)
(***************************************************************************)
\* The positions of the stored personas with this id.
Stored(persona_id) == {i \in DOMAIN personas : personas[i].id = persona_id}

\* The stored persona has an avatar that decodes to an image.
Decodable(i) ==
    /\ personas[i].avatar_base64 # <<>>
    /\ personas[i].avatar_base64[1] = "iVBOR"

\* C13: for every persisted persona with a decodable avatar and every
\* template value, generate_story_pack answers with exactly three slides in
\* the fixed order (avatar and name, traits, quote and call to action), each
\* 1080 by 1920; the slides do not depend on the template, which is only
\* echoed back.
C13_StoryPackSlides ==
    [][\A persona_id \in PersonaIds, template \in Templates :
          \A i \in Stored(persona_id) :
             generate_story_pack(persona_id, template) /\ Decodable(i) =>
                /\ reply'.status_code = 200
                /\ DOMAIN reply' = {"op", "status_code", "persona_id",
                                    "slide_1_base64", "slide_2_base64",
                                    "slide_3_base64", "template"}
                /\ reply'.template = template
                /\ reply'.persona_id = persona_id
                /\ reply'.slide_1_base64.slide = "avatar and name"
                /\ reply'.slide_1_base64.persona_name
                      = personas[i].persona_name
                /\ reply'.slide_2_base64.slide = "traits"
                /\ reply'.slide_2_base64.traits
                      = SubSeq(personas[i].traits, 1,
                               Min({5, Len(personas[i].traits)}))
                /\ reply'.slide_3_base64.slide = "quote and call to action"
                /\ reply'.slide_3_base64.share_quote
                      = personas[i].share_quote
                /\ \A slide \in {reply'.slide_1_base64,
                                 reply'.slide_2_base64,
                                 reply'.slide_3_base64} :
                      slide.size = <<1080, 1920>>]_vars

\* A story pack returned for a template other than the default.
C13_Witness ==
    /\ reply.op = "story_pack"
    /\ reply.status_code = 200
    /\ reply.template = "minimal"
    /\ reply.slide_2_base64.traits # <<>>

\* C14: on a persona whose avatar cannot be decoded, generate_share_card and
\* generate_story_pack answer with an error and no image at all, and the
\* stored personas stay as they are.
C14_UndecodableAvatarFails ==
    [][\A persona_id \in PersonaIds :
          \A i \in Stored(persona_id) :
             /\ ~Decodable(i)
             /\ \/ generate_share_card(persona_id)
                \/ \E template \in Templates :
                      generate_story_pack(persona_id, template)
             => /\ reply'.status_code >= 400
                /\ DOMAIN reply' = {"op", "status_code", "detail"}
                /\ personas' = personas]_vars

\* The share card refused for a stored persona with an undecodable avatar.
C14_Witness ==
    /\ reply.op = "share_card"
    /\ reply.status_code = 500
    /\ reply.detail = "cannot identify image file"
    /\ \E i \in DOMAIN personas : ~Decodable(i)

\* C15: generate-story-pack and remix-persona called with an id that no
\* stored persona has answer 404, return no slide and no variation and store
\* nothing.
C15_UnknownPersona404 ==
    [][\A persona_id \in PersonaIds :
          /\ Stored(persona_id) = {}
          /\ \/ \E template \in Templates :
                   generate_story_pack(persona_id, template)
             \/ \E variation_count \in VariationCounts :
                   RemixStart(persona_id, variation_count)
          => /\ reply'.status_code = 404
             /\ DOMAIN reply' = {"op", "status_code", "detail"}
             /\ personas' = personas
             /\ persona_variations' = persona_variations]_vars

\* C16: no persona is stored whose theme is unknown or disabled at the
\* moment it is stored, whatever the toggles that came while its request was
\* waiting on a provider.
C16_DisabledThemeNeverStored ==
    [][\A i \in DOMAIN personas' :
          i \notin DOMAIN personas =>
             /\ personas'[i].persona_theme \in DOMAIN PERSONA_THEMES
             /\ PERSONA_THEMES[personas'[i].persona_theme].enabled]_vars

\* C17: a generate-persona request that succeeds has stored exactly one
\* record, the one it returns; one that fails, or has not returned yet, has
\* stored none.
C17_OneRecordPerSuccess ==
    /\ \A r \in DOMAIN gen :
          IF gen[r].pc = "done" /\ gen[r].status_code = 200
          THEN /\ Cardinality(Stored(r)) = 1
               /\ \A i \in Stored(r) : <<personas[i]>> = gen[r].persona
          ELSE /\ Stored(r) = {}
               /\ gen[r].pc = "done" => gen[r].status_code >= 400
    /\ Len(personas) =
          Cardinality({r \in DOMAIN gen :
                          gen[r].pc = "done" /\ gen[r].status_code = 200})

\* A request that succeeded on the second attempt of Replicate, its record
\* stored.
C17_Witness ==
    \E r \in DOMAIN gen :
       /\ gen[r].pc = "done"
       /\ gen[r].status_code = 200
       /\ gen[r].persona[1].attempts = 2
       /\ gen[r].persona[1].provider = "replicate"
       /\ Len(personas) = 1

\* C18: no step of any handler changes a field of a stored persona or
\* removes one: the collection only grows at its end.
C18_PersonasImmutable ==
    [][/\ Len(personas') >= Len(personas)
       /\ \A i \in DOMAIN personas : personas'[i] = personas[i]]_vars

\* Two personas stored, after a remix, a toggle, a purchase and a pricing
\* update.
C18_Witness ==
    /\ Len(personas) = 2
    /\ persona_variations # <<>>
    /\ ~PERSONA_THEMES["Glam Diva"].enabled
    /\ purchases # <<>>
    /\ config # <<>>

\* C19: the theme names never change; a toggle with a wrong or missing key
\* (401) or an unknown theme (404) changes nothing; an accepted toggle
\* changes nothing but enabled and prompt_override of the theme it names.
C19_ThemesFixed ==
    [][/\ DOMAIN PERSONA_THEMES' = DOMAIN PERSONA_THEMES
       /\ \A name \in DOMAIN PERSONA_THEMES :
             /\ PERSONA_THEMES'[name].style = PERSONA_THEMES[name].style
             /\ PERSONA_THEMES'[name].style_female
                   = PERSONA_THEMES[name].style_female
             /\ PERSONA_THEMES'[name].style_male
                   = PERSONA_THEMES[name].style_male
       /\ \A key \in {"guess", None} :
             UNCHANGED gen
             /\ admin_toggle_persona(key, "Glam Diva", FALSE,
                                     "neon city at night")
             => /\ reply'.status_code = 401
                /\ PERSONA_THEMES' = PERSONA_THEMES
                /\ personas' = personas
       /\ \A theme_name \in ThemeInputs, enabled \in BOOLEAN,
             prompt_override \in Overrides :
             UNCHANGED gen
             /\ admin_toggle_persona("admin_secret_key_change_me", theme_name,
                                     enabled, prompt_override)
             => IF theme_name \notin ThemeNames
                THEN /\ reply'.status_code = 404
                     /\ PERSONA_THEMES' = PERSONA_THEMES
                     /\ personas' = personas
                ELSE /\ reply'.status_code = 200
                     /\ PERSONA_THEMES'[theme_name].enabled = enabled
                     /\ \A name \in ThemeNames \ {theme_name} :
                           PERSONA_THEMES'[name] = PERSONA_THEMES[name]]_vars

\* A theme disabled and given an override by an accepted toggle, the last
\* toggle refused for an unknown theme.
C19_Witness ==
    /\ ~PERSONA_THEMES["Glam Diva"].enabled
    /\ PERSONA_THEMES["Glam Diva"].prompt_override = "neon city at night"
    /\ reply.op = "toggle"
    /\ reply.status_code = 404

\* C20: a persona returned by a generate-persona request that succeeded has
\* an id and a non-empty avatar, trait list, name, bio and quote; a request
\* that got no avatar from either provider fails and stores nothing.
C20_PersonaComplete ==
    /\ \A r \in DOMAIN gen :
          gen[r].pc = "done" /\ gen[r].status_code = 200 =>
             /\ Len(gen[r].persona) = 1
             /\ gen[r].persona[1].id = r
             /\ gen[r].persona[1].avatar_base64 # <<>>
             /\ gen[r].persona[1].traits # <<>>
             /\ gen[r].persona[1].persona_name # <<>>
             /\ gen[r].persona[1].bio_paragraph # <<>>
             /\ gen[r].persona[1].share_quote # <<>>
    /\ \A i \in DOMAIN personas : personas[i].avatar_base64 # <<>>
    /\ \A r \in DOMAIN gen :
          gen[r].pc = "await_insert" => gen[r].avatar_base64 # <<>>

\* A persona returned with the avatar of the OpenAI fallback, its name
\* parsed and its bio the placeholder.
C20_Witness ==
    \E r \in DOMAIN gen :
       /\ gen[r].pc = "done"
       /\ gen[r].status_code = 200
       /\ gen[r].persona[1].provider = "openai"
       /\ gen[r].persona[1].bio_paragraph
             = <<"Benzersiz ve buyuleyici bir birey.">>
       /\ gen[r].persona[1].persona_name = <<"a">>
       /\ gen[r].persona[1].traits = << <<"b">> >>

(***************************************************************************)
(* SpecRemix: the remix-persona requests of a run on a database that holds *)
(* two personas of earlier runs, with every variation count, two texts of  *)
(* the text provider and a failure at every await.                         *)
(***************************************************************************)
\* A persona an earlier run stored: its theme, language and avatar.
stored_persona(id, theme, lang, content) ==
    LET st == [gen_idle EXCEPT !.id = id, !.persona_theme = theme,
                               !.language = lang]
        waiting == text_generated(st, GoodText,
                                  [gender |-> "unknown", confidence |-> 0],
                                  <<>>, themes_at_startup, "")
    IN  create_persona([waiting EXCEPT
                          !.avatar_base64 = b64encode(content)]).persona[1]

RemixCounts == {0, 1, 2, 3, 5}
RemixTexts == {GoodText, PartText}

RemixInit ==
    /\ REPLICATE_API_TOKEN = "r8_token"
    /\ PERSONA_THEMES = themes_at_startup
    /\ personas = <<earlier_persona(<<"PNG">>),
                    stored_persona(2, "Dark Charmer", "en", <<"junk">>)>>
    /\ persona_variations = <<>>
    /\ config = <<>>
    /\ purchases = <<>>
    /\ gen = [r \in 1..MaxRequests |-> gen_idle]
    /\ remix = remix_idle
    /\ reply = no_reply
    /\ parse_idle
    /\ wrap_idle
    /\ slide2_idle

RemixNext ==
    \/ \E persona_id \in PersonaIds, variation_count \in RemixCounts :
          RemixStart(persona_id, variation_count)
    \/ \E text \in RemixTexts : RemixText(text)
    \/ RemixFails
    \/ RemixInsert

SpecRemix == RemixInit /\ [][RemixNext]_vars

\* The last k of the stored variations.
last_stored(k) ==
    SubSeq(persona_variations, Len(persona_variations) - k + 1,
           Len(persona_variations))

\* C21: a successful remix-persona request for a persisted original with
\* variation_count n >= 1 returns and persists exactly min(n, 3) variations:
\* while the request runs, the variations it has built are the last ones of
\* the store, one for each finished turn of the loop, and at its return
\* their number is min(n, 3); the i-th carries the i-th fixed style, the
\* avatar and the theme of the original and a name, a bio, traits and a
\* quote.
C21_RemixCount ==
    /\ [](remix.pc # "idle" =>
            /\ Len(remix.variations) = remix.i
            /\ remix.i <= Len(persona_variations)
            /\ last_stored(remix.i) = remix.variations)
    /\ [][remix.pc = "await_insert" /\ remix'.pc = "idle"
             /\ reply'.op = "remix" /\ reply'.status_code = 200 =>
            LET n == remix.count
                k == IF n < 3 THEN n ELSE 3
                original == remix.original[1]
                returned == reply'.variations
            IN  /\ n >= 1
                /\ Len(returned) = k
                /\ Len(persona_variations') = Len(persona_variations) + 1
                /\ Len(persona_variations') >= k
                /\ SubSeq(persona_variations', 1, Len(persona_variations))
                      = persona_variations
                /\ SubSeq(persona_variations, Len(persona_variations) - k + 2,
                          Len(persona_variations)) = remix.variations
                /\ \A i \in 1..k :
                      LET v == persona_variations'[
                                  Len(persona_variations') - k + i]
                      IN  /\ v.id = returned[i].id
                          /\ v.original_persona_id = original.id
                          /\ v.persona_theme = original.persona_theme
                          /\ v.avatar_base64 = original.avatar_base64
                          /\ v.variation_style = variation_styles[i]
                          /\ returned[i].variation_style = variation_styles[i]
                          /\ returned[i].avatar_base64
                                = original.avatar_base64
                          /\ returned[i].persona_name = v.persona_name
                          /\ returned[i].bio_paragraph = v.bio_paragraph
                          /\ returned[i].traits = v.traits
                          /\ returned[i].share_quote = v.share_quote
                          /\ v.persona_name # <<>>
                          /\ v.bio_paragraph # <<>>
                          /\ v.traits # <<>>
                          /\ v.share_quote # <<>>]_vars

\* A request for five variations of the second persona has returned three.
C21_Witness ==
    /\ reply.op = "remix"
    /\ reply.status_code = 200
    /\ reply.original_persona_id = 2
    /\ Len(reply.variations) = 3
    /\ Len(persona_variations) = 3
    /\ \A i \in 1..3 :
          /\ persona_variations[i].id = reply.variations[i].id
          /\ persona_variations[i].persona_theme = "Dark Charmer"
          /\ reply.variations[i].variation_style = variation_styles[i]

\* C22: GET /personas/{id} answers with the persisted record whose id is the
\* requested one when there is one, and with HTTP 404 "Persona not found",
\* not 500, when there is none; it never answers with a record of another
\* id, and it changes nothing.
C22_GetPersonaById ==
    [][\A persona_id \in PersonaIds :
          get_persona(persona_id) =>
             /\ reply'.op = "get_persona"
             /\ IF Stored(persona_id) = {}
                THEN /\ reply'.status_code = 404
                     /\ reply'.detail = "Persona not found"
                     /\ "persona" \notin DOMAIN reply'
                ELSE /\ reply'.status_code = 200
                     /\ reply'.persona.id = persona_id
                     /\ \E i \in Stored(persona_id) :
                           reply'.persona = personas[i]
             /\ UNCHANGED <<personas, persona_variations>>]_vars

\* The persona of the request of this run is returned from a store that
\* holds it after the persona of an earlier run.
C22_Witness ==
    /\ reply.op = "get_persona"
    /\ reply.status_code = 200
    /\ reply.persona.id = 1
    /\ Len(personas) = 2
    /\ personas[1].id = 0
    /\ personas[2] = reply.persona

(***************************************************************************)
(* SpecSlide2: the loop of generate_story_pack that draws the traits on    *)
(* slide 2, one step for each turn, on every list of traits.  A trait is   *)
(* the sequence of the widths of its words, as in the word wrap.           *)
(***************************************************************************)
MaxTraits == 6

y_pos_start == 350
badge_size == 50
number_offset == 5
line_advance == 55
trait_gap == 80
watermark_margin == 100

\* persona['traits'] without the cut at five.
slide2_traits_all(ts) == ts

\* persona['traits'][:5]
slide2_traits(ts) == first_lines(ts, 5)

\* lines[:2] of the wrapped trait.
trait_lines(trait, sp) ==
    first_lines(wrap_text(trait, max_width("slide2_trait"), sp),
                line_cap("slide2_trait"))

\* One thing drawn on draw2: what, for which trait, its text, its top and,
\* for the badge, its bottom.
drawing(kind, i, text, y, bottom) ==
    [kind |-> kind, trait |-> i, text |-> text, y |-> y, bottom |-> bottom]

\* The traits of a stored persona: the parser stores no empty trait and
\* replaces an empty list by the placeholder traits.
TraitWords == {<<409, 409>>, <<484, 484>>, <<484, 484, 484>>}
TraitLists == UNION {[1..n -> TraitWords] : n \in 1..MaxTraits}

Slide2Init ==
    /\ traits \in TraitLists
    /\ trait_i = 1
    /\ y_pos = y_pos_start
    /\ draw2 = <<>>
    /\ slide2_pc = "traits"
    /\ words = <<>>
    /\ space_width \in SpaceWidths
    /\ site = "slide2_trait"
    /\ lines = <<>>
    /\ drawn = <<>>
    /\ wrap_pc = "idle"
    /\ parse_idle
    /\ server_idle

\* One turn of "for i, trait in enumerate(persona['traits'][:5], 1)".
Slide2Trait ==
    /\ slide2_pc = "traits"
    /\ trait_i <= Len(slide2_traits(traits))
    /\ LET ls == trait_lines(slide2_traits(traits)[trait_i], space_width) IN
       /\ draw2' = draw2
            \o <<drawing("ellipse", trait_i, <<>>, y_pos, y_pos + badge_size),
                 drawing("number", trait_i, <<>>, y_pos + number_offset,
                         y_pos + number_offset)>>
            \o [j \in 1..Len(ls) |->
                  drawing("line", trait_i, ls[j],
                          y_pos + line_advance * (j - 1),
                          y_pos + line_advance * (j - 1))]
       /\ y_pos' = y_pos + line_advance * Len(ls) + trait_gap
    /\ trait_i' = trait_i + 1
    /\ UNCHANGED <<traits, slide2_pc>>
    /\ UNCHANGED <<parse_vars, wrap_vars, server_vars>>

\* After the loop: the watermark.
Slide2Watermark ==
    /\ slide2_pc = "traits"
    /\ trait_i > Len(slide2_traits(traits))
    /\ draw2' = Append(draw2, drawing("watermark", 0, <<>>,
                                     height - watermark_margin,
                                     height - watermark_margin))
    /\ slide2_pc' = "done"
    /\ UNCHANGED <<traits, trait_i, y_pos>>
    /\ UNCHANGED <<parse_vars, wrap_vars, server_vars>>

Slide2Next == Slide2Trait \/ Slide2Watermark

SpecSlide2 == Slide2Init /\ [][Slide2Next]_vars

\* The drawings of one kind, in the order they were made.
RECURSIVE drawn_of(_, _)
drawn_of(ops, kind) ==
    IF ops = <<>> THEN <<>>
    ELSE IF Head(ops).kind = kind
         THEN <<Head(ops)>> \o drawn_of(Tail(ops), kind)
         ELSE drawn_of(Tail(ops), kind)

\* The number of lines drawn for the n-th trait: those of its wrap, at most 2.
RenderedLines(n) ==
    LET wrapped == Len(wrap_text(traits[n], width - 250, space_width))
    IN  IF wrapped < 2 THEN wrapped ELSE 2

\* Where the cursor stands before the n-th trait.
RECURSIVE CursorBefore(_)
CursorBefore(n) ==
    IF n = 1 THEN 350
    ELSE CursorBefore(n - 1) + 55 * RenderedLines(n - 1) + 80

\* C23: on slide 2 at most the first 5 traits are rendered, in stored order
\* and numbered 1..k; the cursor starts at 350 and advances by 55 for each
\* rendered line of a trait (at most 2) and by 80 after each trait, so that
\* for every list of traits the badges and the trait text stay above the
\* watermark drawn at y = height - 100 = 1820.
C23_Slide2Layout ==
    slide2_pc # "idle" =>
       LET k == trait_i - 1
           badges == drawn_of(draw2, "ellipse")
           numbers == drawn_of(draw2, "number")
           texts == drawn_of(draw2, "line")
       IN  /\ k <= 5
           /\ k <= Len(traits)
           /\ slide2_pc = "done" => k = 5 \/ k = Len(traits)
           /\ Len(badges) = k
           /\ Len(numbers) = k
           /\ y_pos = CursorBefore(k + 1)
           /\ \A n \in 1..k :
                 /\ badges[n].trait = n
                 /\ numbers[n].trait = n
                 /\ badges[n].y = CursorBefore(n)
                 /\ badges[n].bottom = CursorBefore(n) + 50
                 /\ badges[n].bottom < 1820
                 /\ numbers[n].y = CursorBefore(n) + 5
                 /\ LET mine == SelectSeq(texts, LAMBDA d : d.trait = n)
                        wrapped == wrap_text(traits[n], width - 250,
                                             space_width)
                    IN  /\ Len(mine) = RenderedLines(n)
                        /\ \A j \in 1..Len(mine) :
                              /\ mine[j].text = wrapped[j]
                              /\ mine[j].y = CursorBefore(n) + 55 * (j - 1)
                              /\ mine[j].y + 55 <= 1820
           /\ \A a, b \in 1..Len(texts) :
                 a < b => texts[a].trait <= texts[b].trait
           /\ y_pos < 1820
           /\ \A d \in 1..Len(draw2) :
                 draw2[d].kind = "watermark" =>
                    /\ draw2[d].y = 1820
                    /\ d = Len(draw2)

\* Six traits of three words each: five are drawn with two lines each and
\* the cursor ends at 350 + 5 * (2 * 55 + 80) = 1300, above the watermark.
C23_Witness ==
    /\ slide2_pc = "done"
    /\ Len(traits) = 6
    /\ \A n \in 1..6 : Len(traits[n]) = 3
    /\ trait_i = 6
    /\ y_pos = 1300
    /\ Len(drawn_of(draw2, "line")) = 10
    /\ draw2[Len(draw2)].kind = "watermark"

(***************************************************************************)
(* Properties of the avatar providers, checked under SpecGenerate.         *)
(***************************************************************************)
\* How often the request has this entry in its calls.
Calls(r, what) == Len(SelectSeq(gen[r].calls, LAMBDA c : c = what))

\* The request has built or is building its record.
AvatarSettled(r) == gen[r].pc \in {"await_openai", "await_insert"}

\* What both readings of C24 share: at most two calls of Replicate, none
\* without a token, attempts counts them, nothing is asked of a provider
\* after a download that gave an avatar, and the record built has provider
\* 'replicate' exactly when its avatar was downloaded from Replicate and
\* attempts equal to the number of calls of Replicate.
RetryAndRecord(r) ==
    /\ Calls(r, "replicate.run") <= 2
    /\ Calls(r, "generate_images") <= 1
    /\ ~truthy(REPLICATE_API_TOKEN) => Calls(r, "replicate.run") = 0
    /\ gen[r].pc \notin {"idle", "done"} =>
          gen[r].attempts = Calls(r, "replicate.run")
    /\ \A i \in DOMAIN gen[r].calls :
          gen[r].calls[i] = "get 200" => i = Len(gen[r].calls)
    /\ gen[r].pc = "await_insert" =>
          LET persona == gen[r].persona[1] IN
          /\ persona.provider \in {"replicate", "openai"}
          /\ persona.provider = "replicate" <=> Calls(r, "get 200") = 1
          /\ persona.provider = "openai" <=> Calls(r, "generate_images") = 1
          /\ persona.attempts = Calls(r, "replicate.run")
          /\ persona.attempts \in {0, 1, 2}

\* C24 as stated: within one generate-persona request Replicate is called
\* at most 2 times and never again after an attempt that yielded an avatar;
\* the OpenAI fallback is called if and only if no Replicate attempt yielded
\* one, that is the token is not configured or every attempt ended with an
\* exception, an empty output or a download status other than 200; the
\* record has provider 'replicate' exactly when its avatar came from
\* Replicate and attempts equal to the number of Replicate calls.
C24_FallbackIffNoDownload200 ==
    \A r \in 1..MaxRequests :
       /\ RetryAndRecord(r)
       /\ AvatarSettled(r) =>
             (Calls(r, "generate_images") = 1 <=>
                 /\ Calls(r, "get 200") = 0
                 /\ Calls(r, "get 200 empty") = 0)

\* C24, amended: the fallback is called if and only if no Replicate attempt
\* yielded a non-empty avatar; besides the cases above this is the download
\* answered with status 200 and an empty body, after which Replicate is not
\* called again although no avatar was obtained, and the fallback follows
\* at once.  The record built is the one that is persisted.
C24_AvatarRetryAndFallback ==
    /\ [](\A r \in 1..MaxRequests :
            /\ RetryAndRecord(r)
            /\ AvatarSettled(r) =>
                  (Calls(r, "generate_images") = 1 <=>
                      Calls(r, "get 200") = 0)
            /\ \A i \in DOMAIN gen[r].calls :
                  gen[r].calls[i] = "get 200 empty" =>
                     /\ i + 1 = Len(gen[r].calls)
                     /\ gen[r].calls[i + 1] = "generate_images")
    /\ [][\A r \in 1..MaxRequests :
             gen[r].pc = "await_insert" /\ gen'[r].pc = "done"
                /\ gen'[r].status_code = 200 =>
                personas' = Append(personas, gen[r].persona[1])]_vars

\* The first download is answered with status 200 and no content: the
\* record comes from the fallback after one call of Replicate.
C24_Witness ==
    /\ gen[1].pc = "await_insert"
    /\ gen[1].calls = <<"detect_gender_from_image", "replicate.run",
                        "get 200 empty", "generate_images">>
    /\ gen[1].persona[1].provider = "openai"
    /\ gen[1].persona[1].attempts = 1

\* C25: a persona persisted with provider 'openai' has avatar_url null;
\* avatar_url is non-null only when the stored avatar_base64 was downloaded
\* from that URL, also when an earlier Replicate attempt returned a URL
\* whose download failed.
C25_OpenAIHasNoAvatarUrl ==
    \A i \in DOMAIN personas :
       /\ personas[i].provider = "openai" => personas[i].avatar_url = None
       /\ personas[i].avatar_url # None => personas[i].provider = "replicate"

\* C26: a failed remix-persona request persists nothing: when the text
\* provider or the store fails while the i-th variation is produced, no
\* variation created earlier in the same request remains in the
\* persona_variations store.
C26_FailedRemixPersistsNothing ==
    [][remix.pc \in {"await_llm", "await_insert"} /\ remix'.pc = "idle"
          /\ reply'.op = "remix" /\ reply'.status_code = 500 =>
          \A k \in DOMAIN remix.variations :
             \A j \in DOMAIN persona_variations' :
                persona_variations'[j].id # remix.variations[k].id]_vars

(***************************************************************************)
(* SpecStyle: generate_persona from its arrival to the choice of the style *)
(* of the avatar, with every kind of gender in the request and from the    *)
(* classifier, on themes whose prompt_override the admin toggle has set or *)
(* left alone.  No Replicate token is configured.                          *)
(***************************************************************************)
StyleThemes == {"Glam Diva", "Dark Charmer"}
StyleUserGenders == {None, "", "female", "male", "other"}
StyleOverrides == Overrides \cup {"pastel studio"}
StyleGenderInfos == {[gender |-> "female", confidence |-> 95],
                     [gender |-> "male", confidence |-> 90],
                     [gender |-> "unknown", confidence |-> 0]}

StyleInit ==
    /\ REPLICATE_API_TOKEN = ""
    /\ PERSONA_THEMES = themes_at_startup
    /\ personas = <<>>
    /\ persona_variations = <<>>
    /\ config = <<>>
    /\ purchases = <<>>
    /\ gen = [r \in 1..MaxRequests |-> gen_idle]
    /\ remix = remix_idle
    /\ reply = no_reply
    /\ parse_idle
    /\ wrap_idle
    /\ slide2_idle

StyleNext ==
    \/ \E theme \in StyleThemes, gender \in StyleUserGenders :
          GenStart(1, theme, "tr", gender)
    \/ \E gender_info \in StyleGenderInfos :
          GenText(1, PartText, gender_info, <<None, None>>)
    \/ \E theme_name \in StyleThemes, enabled \in BOOLEAN,
          prompt_override \in StyleOverrides :
          admin_toggle_persona(ADMIN_API_KEY, theme_name, enabled,
                               prompt_override)

SpecStyle == StyleInit /\ [][StyleNext]_vars

\* C27: the style used for the avatar is the theme's prompt_override when it
\* is non-empty (style_used 'custom_override'); otherwise the female variant
\* when the gender is 'female', the male variant when it is 'male'
\* ('female_specific' / 'male_specific'), otherwise the base style
\* ('default'); a gender supplied in the request takes precedence over
\* detection: the classifier is then not called and gender_confidence is
\* 1.0 (100 percent), and otherwise gender and confidence are the
\* classifier's.
C27_StylePriority ==
    [][gen[1].pc = "await_llm" /\ gen'[1].pc \notin {"await_llm", "done"} =>
          LET before == gen[1]
              after == gen'[1]
              entry == PERSONA_THEMES[before.persona_theme]
              supplied == before.user_gender \notin {None, ""}
              override == entry.prompt_override \notin {None, ""}
              classifier ==
                 Len(SelectSeq(after.calls,
                               LAMBDA c : c = "detect_gender_from_image"))
          IN  /\ supplied =>
                    /\ after.detected_gender = before.user_gender
                    /\ after.gender_confidence = 100
                    /\ classifier = 0
              /\ ~supplied =>
                    /\ classifier = 1
                    /\ \E info \in StyleGenderInfos :
                          /\ after.detected_gender = info.gender
                          /\ after.gender_confidence = info.confidence
              /\ override =>
                    /\ after.style_used = "custom_override"
                    /\ after.style_desc = <<entry.prompt_override>>
              /\ ~override /\ after.detected_gender = "female" =>
                    /\ after.style_used = "female_specific"
                    /\ after.style_desc = entry.style_female
              /\ ~override /\ after.detected_gender = "male" =>
                    /\ after.style_used = "male_specific"
                    /\ after.style_desc = entry.style_male
              /\ ~override /\ after.detected_gender \notin {"female", "male"} =>
                    /\ after.style_used = "default"
                    /\ after.style_desc = entry.style]_vars

\* The request names the gender 'female', the classifier would say 'male',
\* and the theme has an override: the override is used, the gender is the
\* request's and the classifier was not called.
C27_Witness ==
    /\ gen[1].pc = "await_openai"
    /\ gen[1].user_gender = "female"
    /\ gen[1].detected_gender = "female"
    /\ gen[1].gender_confidence = 100
    /\ gen[1].calls = <<"generate_images">>
    /\ gen[1].style_used = "custom_override"
    /\ gen[1].style_desc = <<"neon city at night">>
    /\ PERSONA_THEMES[gen[1].persona_theme].prompt_override
          = "neon city at night"

\* C28: a prompt override can be set but never cleared: once the
\* prompt_override of a theme is non-empty no step makes it null or empty
\* again; a toggle with a null or an empty prompt_override leaves the
\* stored override as it is and still applies 'enabled'; so every later
\* generation for that theme uses 'custom_override'.
C28_OverrideNeverCleared ==
    [][/\ \A name \in ThemeNames :
             PERSONA_THEMES[name].prompt_override \notin {None, ""} =>
                PERSONA_THEMES'[name].prompt_override \notin {None, ""}
       /\ \A theme_name \in StyleThemes, enabled \in BOOLEAN,
             prompt_override \in {None, ""} :
             UNCHANGED gen
             /\ admin_toggle_persona("admin_secret_key_change_me", theme_name,
                                     enabled, prompt_override)
             => /\ reply'.status_code = 200
                /\ PERSONA_THEMES'[theme_name].enabled = enabled
                /\ PERSONA_THEMES'[theme_name].prompt_override
                      = PERSONA_THEMES[theme_name].prompt_override
       /\ gen[1].pc = "await_llm" /\ gen'[1].pc \notin {"await_llm", "done"}
             /\ PERSONA_THEMES[gen[1].persona_theme].prompt_override
                   \notin {None, ""}
             => gen'[1].style_used = "custom_override"]_vars

\* A generation used the override a theme had, the override was replaced
\* since, and the last toggle, which disabled the theme, answers with an
\* override that is still there.
C28_Witness ==
    /\ gen[1].style_used = "custom_override"
    /\ gen[1].style_desc = <<"neon city at night">>
    /\ reply.op = "toggle"
    /\ reply.status_code = 200
    /\ reply.theme_name = gen[1].persona_theme
    /\ ~reply.config.enabled
    /\ reply.config.prompt_override = "pastel studio"
    /\ PERSONA_THEMES[gen[1].persona_theme] = reply.config

(***************************************************************************)
(* SpecScan: parse_persona_response for the languages 'tr' and 'en' on     *)
(* texts long enough to hold all four fields, with labels of both          *)
(* languages.                                                              *)
(***************************************************************************)
MaxFullLines == 5

FullLineSet ==
    { <<"PERSONA NAME:", " ", "a">>, <<"BiO:", " ", "b">>, <<"OZELLiKLER:">>,
      <<"-", " ", "a">>, <<"QUOTE:", " ", "b">>, <<"a">> }

FullTexts == UNION {[1..n -> FullLineSet] : n \in 1..MaxFullLines}

ScanInit ==
    /\ response \in {str(join(t, "\n")) : t \in FullTexts}
    /\ language \in {"tr", "en"}
    /\ persona_data = no_result
    /\ parse_pc = "start"
    /\ wrap_idle
    /\ server_idle
    /\ slide2_idle

ScanNext == Parse

SpecScan == ScanInit /\ [][ScanNext]_vars

\* What the scan finds in the response with the keyword table of a language.
ScannedFor(lang) ==
    LET ls == response_lines(response.text) IN scan(ls, Len(ls), kw_of(lang))

AllFound(st) ==
    st.name # <<>> /\ st.bio # <<>> /\ st.traits # <<>> /\ st.quote # <<>>

ScanAt(n) == scan(response_lines(response.text), n, kw_of(language))

\* A line that is not blank and starts with no header.
Unlabelled(l) == l # <<>> /\ ~StartsWithOneOf(l, AllHeaders)

\* C30: a name header line leaves the section cursor unchanged: after a name
\* line met while the cursor is 'bio' or 'quote' the following unlabelled
\* line is still appended to that bio or quote, and after a name line met
\* while the cursor is 'traits' the following bullet line is still appended
\* to the traits; only bio, traits and quote headers move the cursor.
C30_NameLeavesCursor ==
    Parsed =>
       LET L == InputLines IN
       /\ \A n \in 0..Len(L) : ScanAt(n).current_section = CursorAfter(L, n)
       /\ \A n \in 1..Len(L) :
             StartsWithOneOf(L[n], NameHeaders) =>
                /\ ScanAt(n).current_section = ScanAt(n - 1).current_section
                /\ ScanAt(n).bio = ScanAt(n - 1).bio
                /\ ScanAt(n).traits = ScanAt(n - 1).traits
                /\ ScanAt(n).quote = ScanAt(n - 1).quote
       /\ \A n \in 2..Len(L) :
             StartsWithOneOf(L[n - 1], NameHeaders) /\ Unlabelled(L[n]) =>
                /\ ScanAt(n - 2).current_section = "bio" =>
                      ScanAt(n).bio = ScanAt(n - 2).bio \o <<" ">> \o L[n]
                /\ ScanAt(n - 2).current_section = "quote" =>
                      ScanAt(n).quote = ScanAt(n - 2).quote \o <<" ">> \o L[n]
                /\ ScanAt(n - 2).current_section = "traits"
                      /\ L[n][1] = "-" /\ BulletEntry(L[n], TRUE) # <<>> =>
                      ScanAt(n).traits = Append(ScanAt(n - 2).traits,
                                                BulletEntry(L[n], TRUE))

\* A bio header, a name header and an unlabelled line: the line is appended
\* to the bio.
C30_Witness ==
    /\ Parsed
    /\ InputLines = << <<"BIO:", "a">>, <<"PERSONA ADI:", "a">>, <<"a">> >>
    /\ ScanAt(1).current_section = "bio"
    /\ ScanAt(2).current_section = "bio"
    /\ persona_data.name = <<"a">>
    /\ persona_data.bio = <<"a", " ", "a">>
====
